---- MODULE Spec2Model ----
(***************************************************************************)
(* Buddy: the activity store, the schedule resolver (ActivityManager) and  *)
(* the completion ledger (CompletionManager), with the date utilities and  *)
(* validators they call.                                                   *)
(*                                                                         *)
(* Text whose characters the code inspects (lower(), substring tests,      *)
(* slices) is a tuple of one-character strings.  A calendar date is the    *)
(* number of days since Monday 2024-12-23, so that the modelled window     *)
(* holds a week that crosses both a month end and a year end.              *)
(***************************************************************************)
EXTENDS Integers, Sequences, FiniteSets, TLC

VARIABLES
    activities,   \* the activities table: id -> row
    completions,  \* the completions table: rows in rowid order
    now,          \* the wall clock: [date, time]
    ret,          \* the last call: its name, arguments and outcome
    lastMark,     \* history: <<activity id, date>> -> status of the last
                  \* mark that returned a Completion for the pair
    born,         \* history: activity id -> the clock when create added it
    lastDone,     \* history: <<activity id, date>> -> the clock of the last
                  \* mark with status done that returned a Completion
    sessions      \* the database sessions left open between steps: what
                  \* each holds unflushed and where its call stands

vars ==
    <<activities, completions, now, ret, lastMark, born, lastDone, sessions>>

(***************************************************************************)
(* Optional[T]: None is the empty tuple, a value v is <<v>>.               *)
(***************************************************************************)
None == <<>>
Some(v) == <<v>>
Get(o) == o[1]

(***************************************************************************)
(* Bounds of the model.                                                    *)
(***************************************************************************)
MaxDay == 16      \* the dates a call may name are 0..MaxDay
MaxActs == 2      \* activities stored at a time, and the largest id
MaxRows == 3      \* completions stored at a time
MaxTicks == 3     \* days the clock advances in a run

Days == 0..MaxDay

\* the times of day the clock shows, in minutes since midnight
ClockTimes == {450, 1230}

(***************************************************************************)
(* Text.                                                                   *)
(***************************************************************************)
UpperAlpha ==
    <<"A","B","C","D","E","F","G","H","I","J","K","L","M",
      "N","O","P","Q","R","S","T","U","V","W","X","Y","Z">>

LowerAlpha ==
    <<"a","b","c","d","e","f","g","h","i","j","k","l","m",
      "n","o","p","q","r","s","t","u","v","w","x","y","z">>

UpperSet == {UpperAlpha[i] : i \in 1..26}

LowerOf == [c \in UpperSet |-> LowerAlpha[CHOOSE i \in 1..26 : UpperAlpha[i] = c]]

\* str.lower(), one character
LowerChar(c) == IF c \in UpperSet THEN LowerOf[c] ELSE c

\* str.lower()
Lower(s) == [i \in 1..Len(s) |-> LowerChar(s[i])]

\* Python's  sub in text  for strings
Contains(text, sub) ==
    \E i \in 0..(Len(text) - Len(sub)) :
        \A j \in 1..Len(sub) : text[i + j] = sub[j]

\* Python's  s[:n]
Prefix(s, n) == SubSeq(s, 1, IF n < Len(s) THEN n ELSE Len(s))

\* Python's  x in list
InList(x, list) == \E i \in 1..Len(list) : list[i] = x

\* Python truthiness of an Optional[str] held as a tuple of characters
TruthyText(o) == o # None /\ Get(o) # <<>>

\* Python truthiness of an Optional[str] held as an atomic string
TruthyStr(o) == o # None /\ Get(o) # ""

\* Python truthiness of an Optional[int]
TruthyInt(o) == o # None /\ Get(o) # 0

(***************************************************************************)
(* config/defaults.py                                                      *)
(***************************************************************************)
C_Work == <<"W","o","r","k">>
C_Personal == <<"P","e","r","s","o","n","a","l">>
C_Health == <<"H","e","a","l","t","h">>
C_Education == <<"E","d","u","c","a","t","i","o","n">>
C_Errands == <<"E","r","r","a","n","d","s">>
C_Social == <<"S","o","c","i","a","l">>
C_Finance == <<"F","i","n","a","n","c","e">>
C_Other == <<"O","t","h","e","r">>

CATEGORIES ==
    <<C_Work, C_Personal, C_Health, C_Education, C_Errands, C_Social,
      C_Finance, C_Other>>

S_done == <<"d","o","n","e">>
S_missed == <<"m","i","s","s","e","d">>
S_partial == <<"p","a","r","t","i","a","l">>
S_rescheduled == <<"r","e","s","c","h","e","d","u","l","e","d">>

COMPLETION_STATUSES == <<S_done, S_missed, S_partial, S_rescheduled>>

R_once == <<"o","n","c","e">>
R_daily == <<"d","a","i","l","y">>
R_weekdays == <<"w","e","e","k","d","a","y","s">>
R_weekends == <<"w","e","e","k","e","n","d","s">>
R_weekly == <<"w","e","e","k","l","y">>
R_custom == <<"c","u","s","t","o","m">>

RECURRENCE_OPTIONS ==
    <<R_once, R_daily, R_weekdays, R_weekends, R_weekly, R_custom>>

W_monday == <<"m","o","n","d","a","y">>
W_sunday == <<"s","u","n","d","a","y">>

\* the default of get_week_bounds' parameter week_start
WeekStartDefault == W_monday

(***************************************************************************)
(* The calendar (datetime.date).  Day 0 is Monday 2024-12-23; the months   *)
(* of the table are December 2024, January 2025 and February 2025.         *)
(***************************************************************************)
Calendar == [dom0 |-> 23, lens |-> <<31, 31, 28>>]

RECURSIVE NormDate(_, _)
NormDate(m, k) ==
    IF m < Len(Calendar.lens) /\ k > Calendar.lens[m]
    THEN NormDate(m + 1, k - Calendar.lens[m])
    ELSE [month |-> m, day |-> k]

\* date.day
DayOf(d) == NormDate(1, Calendar.dom0 + d).day

\* number of days of the month of d
MonthLen(d) == Calendar.lens[NormDate(1, Calendar.dom0 + d).month]

\* date.weekday(): Monday = 0 .. Sunday = 6
Weekday(d) == d % 7

\* date.replace(day=k): ValueError when the month has no day k
Replace(d, k) ==
    IF 1 <= k /\ k <= MonthLen(d)
    THEN [ok |-> TRUE, val |-> d - DayOf(d) + k]
    ELSE [ok |-> FALSE, val |-> "ValueError"]

\* strftime("%A")
DayNames ==
    << <<"M","o","n","d","a","y">>,
       <<"T","u","e","s","d","a","y">>,
       <<"W","e","d","n","e","s","d","a","y">>,
       <<"T","h","u","r","s","d","a","y">>,
       <<"F","r","i","d","a","y">>,
       <<"S","a","t","u","r","d","a","y">>,
       <<"S","u","n","d","a","y">> >>

(***************************************************************************)
(* utils/date_utils.py                                                     *)
(***************************************************************************)
get_week_bounds_SundayIsFive(target_date, week_start, today) ==
    LET date == IF target_date = None THEN today ELSE Get(target_date)
        start_day == IF Lower(week_start) = W_monday THEN 0 ELSE 5
        days_since_start == (Weekday(date) - start_day) % 7
        week_start_date == date - days_since_start
    IN  <<week_start_date, week_start_date + 6>>

\* get_week_bounds; today is date.today()
get_week_bounds(target_date, week_start, today) ==
    LET date == IF target_date = None THEN today ELSE Get(target_date)
        start_day == IF Lower(week_start) = W_monday THEN 0 ELSE 6
        days_since_start == (Weekday(date) - start_day) % 7
        week_start_date == date - days_since_start
        week_end_date == week_start_date + 6
    IN  <<week_start_date, week_end_date>>

is_weekday_IncludesSaturday(d) == Weekday(d) <= 5

is_weekday(d) == Weekday(d) < 5

is_weekend(d) == Weekday(d) >= 5

get_day_name(d) == Lower(DayNames[Weekday(d) + 1])

(***************************************************************************)
(* utils/validators.py: the value returned, or the ValueError raised       *)
(***************************************************************************)
Ok(v) == [ok |-> TRUE, val |-> v]
ValueError == [ok |-> FALSE, val |-> "ValueError"]

\* cat.lower() for each cat of CATEGORIES
CategoriesLower == [i \in 1..Len(CATEGORIES) |-> Lower(CATEGORIES[i])]

validate_category(category) ==
    LET category_lower == Lower(category)
    IN  IF InList(category_lower, CategoriesLower)
        THEN Ok(CATEGORIES[CHOOSE i \in 1..Len(CATEGORIES) :
                    /\ CategoriesLower[i] = category_lower
                    /\ \A j \in 1..(i - 1) : CategoriesLower[j] # category_lower])
        ELSE ValueError

validate_recurrence(recurrence) ==
    IF InList(Lower(recurrence), RECURRENCE_OPTIONS)
    THEN Ok(Lower(recurrence))
    ELSE ValueError

validate_status_AcceptsAnything(status) == Ok(Lower(status))

validate_status(status) ==
    IF InList(Lower(status), COMPLETION_STATUSES)
    THEN Ok(Lower(status))
    ELSE ValueError

validate_duration(duration) ==
    IF duration < 1 \/ duration > 1440 THEN ValueError ELSE Ok(duration)

validate_prep_time(prep_time) ==
    IF prep_time < 0 \/ prep_time > 180 THEN ValueError ELSE Ok(prep_time)

\* parse_time hands the text to dateutil's parser and keeps the time of
\* day, in minutes since midnight; these are the texts the model enters.
ParseTable ==
    [text : {"08:00"}, minutes : {480}] \cup
    [text : {"8am"}, minutes : {480}] \cup
    [text : {"09:00"}, minutes : {540}] \cup
    [text : {"18:30"}, minutes : {1110}] \cup
    [text : {"06:00"}, minutes : {360}] \cup
    [text : {"07:45"}, minutes : {465}] \cup
    [text : {"08:15"}, minutes : {495}] \cup
    [text : {"23:30"}, minutes : {1410}]

parse_time(time_str) ==
    IF \E e \in ParseTable : e.text = time_str
    THEN Ok((CHOOSE e \in ParseTable : e.text = time_str).minutes)
    ELSE ValueError

(***************************************************************************)
(* core/activity_manager.py                                                *)
(***************************************************************************)
RECURSIVE IdSeq(_)
\* the ids of a set, ascending (rowid order)
IdSeq(S) ==
    IF S = {} THEN <<>>
    ELSE LET m == CHOOSE x \in S : \A y \in S : x <= y
         IN  <<m>> \o IdSeq(S \ {m})

\* a stable sort by descending key
StableSort_Descending(seq, keys) ==
    LET n == Len(seq)
        pos(i) == 1 + Cardinality({j \in 1..n :
                        \/ keys[j] > keys[i]
                        \/ keys[j] = keys[i] /\ j < i})
    IN  [k \in 1..n |-> seq[CHOOSE i \in 1..n : pos(i) = k]]

\* a stable sort of seq by ascending key, keys[i] being the key of seq[i]:
\* the element at i lands behind those of smaller key and those of equal
\* key that stand before it
StableSort(seq, keys) ==
    LET n == Len(seq)
        pos(i) == 1 + Cardinality({j \in 1..n :
                        \/ keys[j] < keys[i]
                        \/ keys[j] = keys[i] /\ j < i})
    IN  [k \in 1..n |-> seq[CHOOSE i \in 1..n : pos(i) = k]]

\* sorted(seq, key=lambda a: a.start_time), and ORDER BY start_time
SortedByStart(seq) ==
    StableSort(seq, [i \in 1..Len(seq) |-> seq[i].start_time])

\* the next rowid of a table whose ids are the set S
NewId(S) == IF S = {} THEN 1 ELSE (CHOOSE x \in S : \A y \in S : y <= x) + 1

get_by_id(acts, activity_id) ==
    IF activity_id \in DOMAIN acts THEN Some(acts[activity_id]) ELSE None

get_all_IgnoresActiveFlag(acts, active_only) ==
    SortedByStart([i \in 1..Cardinality(DOMAIN acts) |->
                      acts[IdSeq(DOMAIN acts)[i]]])

get_all(acts, active_only) ==
    LET ids == IdSeq({id \in DOMAIN acts : active_only => acts[id].is_active})
    IN  SortedByStart([i \in 1..Len(ids) |-> acts[ids[i]]])

_is_scheduled_for_date_OnceFromCreation(activity, target_date) ==
    LET recurrence == activity.recurrence
    IN  IF recurrence = R_daily THEN TRUE
        ELSE IF recurrence = R_weekdays THEN is_weekday(target_date)
        ELSE IF recurrence = R_weekends THEN is_weekend(target_date)
        ELSE IF recurrence = R_weekly
             THEN Weekday(target_date) = Weekday(activity.created_at.date)
        ELSE IF recurrence = R_custom /\ TruthyText(activity.custom_days)
             THEN Contains(Lower(Get(activity.custom_days)),
                           Prefix(get_day_name(target_date), 3))
        ELSE IF recurrence = R_once
             THEN target_date >= activity.created_at.date
        ELSE FALSE

_is_scheduled_for_date_WeeklyFromUpdate(activity, target_date) ==
    LET recurrence == activity.recurrence
    IN  IF recurrence = R_daily THEN TRUE
        ELSE IF recurrence = R_weekdays THEN is_weekday(target_date)
        ELSE IF recurrence = R_weekends THEN is_weekend(target_date)
        ELSE IF recurrence = R_weekly
             THEN Weekday(target_date) = Weekday(activity.updated_at.date)
        ELSE IF recurrence = R_custom /\ TruthyText(activity.custom_days)
             THEN Contains(Lower(Get(activity.custom_days)),
                           Prefix(get_day_name(target_date), 3))
        ELSE IF recurrence = R_once
             THEN target_date = activity.created_at.date
        ELSE FALSE

_is_scheduled_for_date_CustomExactName(activity, target_date) ==
    LET recurrence == activity.recurrence
    IN  IF recurrence = R_daily THEN TRUE
        ELSE IF recurrence = R_weekdays THEN is_weekday(target_date)
        ELSE IF recurrence = R_weekends THEN is_weekend(target_date)
        ELSE IF recurrence = R_weekly
             THEN Weekday(target_date) = Weekday(activity.created_at.date)
        ELSE IF recurrence = R_custom /\ TruthyText(activity.custom_days)
             THEN Contains(Get(activity.custom_days),
                           Prefix(get_day_name(target_date), 3))
        ELSE IF recurrence = R_once
             THEN target_date = activity.created_at.date
        ELSE FALSE

_is_scheduled_for_date(activity, target_date) ==
    LET recurrence == activity.recurrence
    IN  IF recurrence = R_daily THEN TRUE
        ELSE IF recurrence = R_weekdays THEN is_weekday(target_date)
        ELSE IF recurrence = R_weekends THEN is_weekend(target_date)
        ELSE IF recurrence = R_weekly
             THEN Weekday(target_date) = Weekday(activity.created_at.date)
        ELSE IF recurrence = R_custom /\ TruthyText(activity.custom_days)
             THEN Contains(Lower(Get(activity.custom_days)),
                           Prefix(get_day_name(target_date), 3))
        ELSE IF recurrence = R_once
             THEN target_date = activity.created_at.date
        ELSE FALSE

\* the activities of seq that are scheduled for target_date, in seq's order
ScheduledOf(seq, target_date) ==
    SelectSeq(seq, LAMBDA a : _is_scheduled_for_date(a, target_date))

get_for_date(acts, target_date) ==
    LET all_activities == get_all(acts, TRUE)
        result == ScheduledOf(all_activities, target_date)
    IN  SortedByStart(result)

\* result.append(activity) for each activity of seq not yet in result
RECURSIVE AppendNew(_, _)
AppendNew(result, seq) ==
    IF seq = <<>> THEN result
    ELSE AppendNew(IF InList(seq[1], result) THEN result
                   ELSE Append(result, seq[1]),
                   SubSeq(seq, 2, Len(seq)))

RECURSIVE WeekLoop_NoMembershipTest(_, _, _, _)
WeekLoop_NoMembershipTest(current, week_end, all_activities, result) ==
    IF current <= week_end
    THEN LET found == result \o ScheduledOf(all_activities, current)
             next == Replace(current, DayOf(current) + 1)
         IN  IF next.ok
             THEN WeekLoop_NoMembershipTest(next.val, week_end, all_activities, found)
             ELSE ValueError
    ELSE Ok(result)

RECURSIVE WeekLoop(_, _, _, _)
\* the while loop of get_for_week: the list collected, or the ValueError
\* of current.replace(day=current.day + 1)
WeekLoop(current, week_end, all_activities, result) ==
    IF current <= week_end
    THEN LET found == AppendNew(result, ScheduledOf(all_activities, current))
             next == Replace(current, DayOf(current) + 1)
         IN  IF next.ok
             THEN WeekLoop(next.val, week_end, all_activities, found)
             ELSE ValueError
    ELSE Ok(result)

get_for_week(acts, target_date, today) ==
    LET bounds == get_week_bounds(target_date, WeekStartDefault, today)
        all_activities == get_all(acts, TRUE)
        looped == WeekLoop(bounds[1], bounds[2], all_activities, <<>>)
    IN  IF looped.ok THEN Ok(SortedByStart(looped.val)) ELSE looped

\* ActivityManager.create: in.<parameter> are the arguments
create(acts, clock, in) ==
    LET parsed_time == parse_time(in.start_time)
        validated_category == validate_category(in.category)
        validated_recurrence == validate_recurrence(in.recurrence)
        duration == IF TruthyInt(in.duration)
                    THEN validate_duration(Get(in.duration))
                    ELSE Ok(0)
        prep_time == IF in.prep_time # 0
                     THEN validate_prep_time(in.prep_time)
                     ELSE Ok(in.prep_time)
        activity ==
            [id |-> NewId(DOMAIN acts),
             title |-> in.title,
             description |-> in.description,
             category |-> validated_category.val,
             start_time |-> parsed_time.val,
             duration |-> in.duration,
             recurrence |-> validated_recurrence.val,
             custom_days |-> in.custom_days,
             location |-> in.location,
             prep_time |-> in.prep_time,
             is_outdoor |-> in.is_outdoor,
             is_active |-> TRUE,
             created_at |-> clock,
             updated_at |-> clock]
    IN  IF /\ parsed_time.ok /\ validated_category.ok /\ validated_recurrence.ok
           /\ duration.ok /\ prep_time.ok
        THEN [res |-> Ok(activity),
              acts |-> [id \in DOMAIN acts \cup {activity.id} |->
                          IF id = activity.id THEN activity ELSE acts[id]]]
        ELSE [res |-> ValueError, acts |-> acts]

\* ActivityManager.update: in.<parameter> are the arguments, each Optional.
\* A ValueError leaves the session uncommitted; the caller closes it.
update(acts, clock, activity_id, in) ==
    IF get_by_id(acts, activity_id) = None
    THEN [res |-> Ok(None), acts |-> acts]
    ELSE
    LET a0 == acts[activity_id]
        t == IF TruthyStr(in.start_time) THEN parse_time(Get(in.start_time))
             ELSE Ok(a0.start_time)
        c == IF TruthyText(in.category) THEN validate_category(Get(in.category))
             ELSE Ok(a0.category)
        d == IF TruthyInt(in.duration)
             THEN LET v == validate_duration(Get(in.duration))
                  IN  IF v.ok THEN Ok(Some(v.val)) ELSE v
             ELSE Ok(a0.duration)
        r == IF TruthyText(in.recurrence)
             THEN validate_recurrence(Get(in.recurrence))
             ELSE Ok(a0.recurrence)
        p == IF in.prep_time # None THEN validate_prep_time(Get(in.prep_time))
             ELSE Ok(a0.prep_time)
        \* the attributes as assigned when no statement raised
        a9 == [a0 EXCEPT
                 !.title = IF TruthyStr(in.title) THEN Get(in.title) ELSE @,
                 !.start_time = t.val,
                 !.category = c.val,
                 !.description = IF in.description # None THEN in.description ELSE @,
                 !.duration = d.val,
                 !.recurrence = r.val,
                 !.location = IF in.location # None THEN in.location ELSE @,
                 !.prep_time = p.val,
                 !.is_outdoor = IF in.is_outdoor # None THEN Get(in.is_outdoor) ELSE @]
        \* onupdate=datetime.now: set by the UPDATE, issued when a column changed
        stored == IF a9 = a0 THEN a0 ELSE [a9 EXCEPT !.updated_at = clock]
    IN  IF t.ok /\ c.ok /\ d.ok /\ r.ok /\ p.ok
        THEN [res |-> Ok(Some(stored)),
              acts |-> [acts EXCEPT ![activity_id] = stored]]
        ELSE [res |-> ValueError, acts |-> acts]

\* the assignments of update, in the order of its if statements
UpdateOrder ==
    <<"title", "start_time", "category", "description", "duration",
      "recurrence", "location", "prep_time", "is_outdoor">>

\* one if statement of update on the loaded object: the object after it, or
\* the ValueError its validator raised
Assign(obj, f, in) ==
    CASE f = "title" ->
            Ok(IF TruthyStr(in.title)
               THEN [obj EXCEPT !.title = Get(in.title)] ELSE obj)
      [] f = "start_time" ->
            IF ~TruthyStr(in.start_time) THEN Ok(obj)
            ELSE IF parse_time(Get(in.start_time)).ok
            THEN Ok([obj EXCEPT
                       !.start_time = parse_time(Get(in.start_time)).val])
            ELSE ValueError
      [] f = "category" ->
            IF ~TruthyText(in.category) THEN Ok(obj)
            ELSE IF validate_category(Get(in.category)).ok
            THEN Ok([obj EXCEPT
                       !.category = validate_category(Get(in.category)).val])
            ELSE ValueError
      [] f = "description" ->
            Ok(IF in.description # None
               THEN [obj EXCEPT !.description = in.description] ELSE obj)
      [] f = "duration" ->
            IF ~TruthyInt(in.duration) THEN Ok(obj)
            ELSE IF validate_duration(Get(in.duration)).ok
            THEN Ok([obj EXCEPT !.duration = in.duration])
            ELSE ValueError
      [] f = "recurrence" ->
            IF ~TruthyText(in.recurrence) THEN Ok(obj)
            ELSE IF validate_recurrence(Get(in.recurrence)).ok
            THEN Ok([obj EXCEPT
                       !.recurrence = validate_recurrence(Get(in.recurrence)).val])
            ELSE ValueError
      [] f = "location" ->
            Ok(IF in.location # None
               THEN [obj EXCEPT !.location = in.location] ELSE obj)
      [] f = "prep_time" ->
            IF in.prep_time = None THEN Ok(obj)
            ELSE IF validate_prep_time(Get(in.prep_time)).ok
            THEN Ok([obj EXCEPT !.prep_time = Get(in.prep_time)])
            ELSE ValueError
      [] f = "is_outdoor" ->
            Ok(IF in.is_outdoor # None
               THEN [obj EXCEPT !.is_outdoor = Get(in.is_outdoor)] ELSE obj)

RECURSIVE AssignFrom(_, _, _)
\* update's if statements from the k-th on: ok when none raised, and the
\* object as the last statement that ran left it
AssignFrom(k, obj, in) ==
    IF k > Len(UpdateOrder) THEN [ok |-> TRUE, obj |-> obj]
    ELSE IF Assign(obj, UpdateOrder[k], in).ok
    THEN AssignFrom(k + 1, Assign(obj, UpdateOrder[k], in).val, in)
    ELSE [ok |-> FALSE, obj |-> obj]

\* what the session shows: an object it holds with unflushed attributes
\* stands for its row (the session is made with autoflush=False, and a
\* query does not overwrite a loaded object)
SessionView(acts, dirty) ==
    [id \in DOMAIN acts |-> IF id \in DOMAIN dirty THEN dirty[id] ELSE acts[id]]

\* db.commit(): the flush writes every changed object, onupdate stamps it
Commit(acts, dirty, clock) ==
    [id \in DOMAIN acts |->
        IF id \in DOMAIN dirty /\ dirty[id] # acts[id]
        THEN [dirty[id] EXCEPT !.updated_at = clock]
        ELSE acts[id]]

\* ActivityManager.delete without the cascade of Activity.completions
delete_NoCascade(acts, comps, activity_id) ==
    IF get_by_id(acts, activity_id) = None
    THEN [res |-> FALSE, acts |-> acts, comps |-> comps]
    ELSE [res |-> TRUE,
          acts |-> [id \in DOMAIN acts \ {activity_id} |-> acts[id]],
          comps |-> comps]

\* ActivityManager.delete, with the cascade of Activity.completions
delete(acts, comps, activity_id) ==
    IF get_by_id(acts, activity_id) = None
    THEN [res |-> FALSE, acts |-> acts, comps |-> comps]
    ELSE [res |-> TRUE,
          acts |-> [id \in DOMAIN acts \ {activity_id} |-> acts[id]],
          comps |-> SelectSeq(comps, LAMBDA c : c.activity_id # activity_id)]

\* ActivityManager.toggle
toggle(acts, clock, activity_id) ==
    IF get_by_id(acts, activity_id) = None
    THEN [res |-> None, acts |-> acts]
    ELSE LET stored == [acts[activity_id] EXCEPT
                           !.is_active = ~acts[activity_id].is_active,
                           !.updated_at = clock]
         IN  [res |-> Some(stored),
              acts |-> [acts EXCEPT ![activity_id] = stored]]

(***************************************************************************)
(* core/completion_manager.py                                              *)
(***************************************************************************)
\* query(Completion).filter(activity_id ==).filter(date ==).first(): the
\* index of the row, or 0
FirstRow_IgnoresDate(comps, activity_id, target_date) ==
    IF \E i \in 1..Len(comps) : comps[i].activity_id = activity_id
    THEN CHOOSE i \in 1..Len(comps) :
            /\ comps[i].activity_id = activity_id
            /\ \A j \in 1..(i - 1) : comps[j].activity_id # activity_id
    ELSE 0

FirstRow(comps, activity_id, target_date) ==
    LET hit(i) == comps[i].activity_id = activity_id /\ comps[i].date = target_date
    IN  IF \E i \in 1..Len(comps) : hit(i)
        THEN CHOOSE i \in 1..Len(comps) : hit(i) /\ \A j \in 1..(i - 1) : ~hit(j)
        ELSE 0

\* mark whose update path never sets the completion timestamp
mark_UpdateKeepsTimestamp(acts, comps, clock, activity_id, status, target_date, notes) ==
    LET validated_status == validate_status(status)
        date == IF target_date = None THEN clock.date ELSE Get(target_date)
        existing == FirstRow(comps, activity_id, date)
        updated ==
            [comps[existing] EXCEPT
                !.status = validated_status.val,
                !.notes = IF TruthyStr(notes) THEN notes ELSE @,
                !.completed_at = @]
        completion ==
            [id |-> NewId({comps[i].id : i \in 1..Len(comps)}),
             activity_id |-> activity_id,
             date |-> date,
             status |-> validated_status.val,
             completed_at |-> IF validated_status.val = S_done
                              THEN Some(clock) ELSE None,
             notes |-> notes,
             created_at |-> clock]
    IN  IF ~validated_status.ok
        THEN [res |-> ValueError, comps |-> comps]
        ELSE IF get_by_id(acts, activity_id) = None
        THEN [res |-> Ok(None), comps |-> comps]
        ELSE IF existing # 0
        THEN [res |-> Ok(Some(updated)),
              comps |-> [comps EXCEPT ![existing] = updated]]
        ELSE [res |-> Ok(Some(completion)), comps |-> Append(comps, completion)]

\* CompletionManager.mark
mark(acts, comps, clock, activity_id, status, target_date, notes) ==
    LET validated_status == validate_status(status)
        date == IF target_date = None THEN clock.date ELSE Get(target_date)
        existing == FirstRow(comps, activity_id, date)
        updated ==
            [comps[existing] EXCEPT
                !.status = validated_status.val,
                !.notes = IF TruthyStr(notes) THEN notes ELSE @,
                !.completed_at = IF validated_status.val = S_done
                                 THEN Some(clock) ELSE @]
        completion ==
            [id |-> NewId({comps[i].id : i \in 1..Len(comps)}),
             activity_id |-> activity_id,
             date |-> date,
             status |-> validated_status.val,
             completed_at |-> IF validated_status.val = S_done
                              THEN Some(clock) ELSE None,
             notes |-> notes,
             created_at |-> clock]
    IN  IF ~validated_status.ok
        THEN [res |-> ValueError, comps |-> comps]
        ELSE IF get_by_id(acts, activity_id) = None
        THEN [res |-> Ok(None), comps |-> comps]
        ELSE IF existing # 0
        THEN [res |-> Ok(Some(updated)),
              comps |-> [comps EXCEPT ![existing] = updated]]
        ELSE [res |-> Ok(Some(completion)), comps |-> Append(comps, completion)]

\* the row of comps with primary key id, 0 if there is none
RowOfId(comps, id) ==
    IF \E i \in 1..Len(comps) : comps[i].id = id
    THEN CHOOSE i \in 1..Len(comps) : comps[i].id = id
    ELSE 0

\* mark up to its second query: the ValueError of validate_status, None for
\* an unknown activity, else the primary key of the existing row of
\* (activity_id, date), 0 when the query found none
mark_read(acts, comps, clock, activity_id, status, target_date) ==
    LET validated_status == validate_status(status)
        date == IF target_date = None THEN clock.date ELSE Get(target_date)
        existing == FirstRow(comps, activity_id, date)
    IN  IF ~validated_status.ok THEN ValueError
        ELSE IF get_by_id(acts, activity_id) = None THEN Ok(None)
        ELSE Ok(Some(IF existing # 0 THEN comps[existing].id ELSE 0))

\* mark from `if existing:` on, with the row its query had found: the
\* UPDATE of that row, or the INSERT of a new one, and the commit
mark_write(comps, clock, existing, activity_id, status, target_date, notes) ==
    LET validated_status == validate_status(status)
        date == IF target_date = None THEN clock.date ELSE Get(target_date)
        at == RowOfId(comps, existing)
        updated ==
            [comps[at] EXCEPT
                !.status = validated_status.val,
                !.notes = IF TruthyStr(notes) THEN notes ELSE @,
                !.completed_at = IF validated_status.val = S_done
                                 THEN Some(clock) ELSE @]
        completion ==
            [id |-> NewId({comps[i].id : i \in 1..Len(comps)}),
             activity_id |-> activity_id,
             date |-> date,
             status |-> validated_status.val,
             completed_at |-> IF validated_status.val = S_done
                              THEN Some(clock) ELSE None,
             notes |-> notes,
             created_at |-> clock]
    IN  IF existing # 0
        THEN [res |-> Ok(Some(updated)),
              comps |-> [comps EXCEPT ![at] = updated]]
        ELSE [res |-> Ok(Some(completion)), comps |-> Append(comps, completion)]

\* CompletionManager.get_completion_status
get_completion_status(comps, clock, activity_id, target_date) ==
    LET date == IF target_date = None THEN clock.date ELSE Get(target_date)
        completion == FirstRow(comps, activity_id, date)
    IN  IF completion # 0 THEN Some(comps[completion].status) ELSE None

\* round(a / b) to the nearest integer, a tie going to the even one, for
\* a >= 0 and b > 0: Python's round(x, 1) on x = a / (10 * b)
RoundHalfEven(a, b) ==
    LET q == a \div b
        r == a % b
    IN  IF 2 * r < b THEN q
        ELSE IF 2 * r > b THEN q + 1
        ELSE IF q % 2 = 0 THEN q ELSE q + 1

\* sum(1 for c in completions if c.status == status)
CountStatus(rows, status) ==
    Cardinality({i \in 1..Len(rows) : rows[i].status = status})

\* Rate with full credit for a partial completion
Rate_PartialCountsAsDone(done, partial, total) ==
    RoundHalfEven((2 * done + 2 * partial) * 500, total)

\* round(((done + partial * 0.5) / total) * 100, 1), in tenths of a percent
Rate(done, partial, total) ==
    RoundHalfEven((2 * done + partial) * 500, total)

\* CompletionManager.get_stats; completion_rate is in tenths of a percent
get_stats(comps, start_date, end_date) ==
    LET rows == SelectSeq(comps, LAMBDA c : /\ c.date >= start_date
                                            /\ c.date <= end_date)
        total == Len(rows)
        done == CountStatus(rows, S_done)
        missed == CountStatus(rows, S_missed)
        partial == CountStatus(rows, S_partial)
        rescheduled == CountStatus(rows, S_rescheduled)
    IN  IF total = 0
        THEN [total |-> 0, done |-> 0, missed |-> 0, partial |-> 0,
              rescheduled |-> 0, completion_rate |-> 0]
        ELSE [total |-> total, done |-> done, missed |-> missed,
              partial |-> partial, rescheduled |-> rescheduled,
              completion_rate |-> Rate(done, partial, total)]

RECURSIVE StreakLoop(_, _, _)
\* the for loop of get_streak over the rows left: the streak, or the
\* ValueError of expected_date.replace(day=expected_date.day - 1)
StreakLoop(rows, expected_date, streak) ==
    IF rows = <<>> THEN Ok(streak)
    ELSE IF rows[1].date = expected_date
         THEN LET next == Replace(expected_date, DayOf(expected_date) - 1)
              IN  IF next.ok
                  THEN StreakLoop(SubSeq(rows, 2, Len(rows)), next.val, streak + 1)
                  ELSE ValueError
    ELSE IF rows[1].date < expected_date
         THEN Ok(streak)
    ELSE StreakLoop(SubSeq(rows, 2, Len(rows)), expected_date, streak)

\* CompletionManager.get_streak
get_streak(comps, clock, activity_id) ==
    LET found == SelectSeq(comps, LAMBDA c : /\ c.activity_id = activity_id
                                             /\ c.status = S_done)
        \* order_by(Completion.date.desc())
        rows == StableSort(found, [i \in 1..Len(found) |-> 0 - found[i].date])
    IN  IF rows = <<>> THEN Ok(0)
        ELSE StreakLoop(rows, clock.date, 0)

(***************************************************************************)
(* core/analytics_engine.py.  A dict is the sequence of its <<key, value>>  *)
(* items in insertion order; a rate is in tenths of a percent.             *)
(***************************************************************************)
\* the {"done", "total", "rate"} entry of a group of completions: done is
\* int() of the credit (1 per done, 0.5 per partial), rate is rounded from
\* the credit itself
GroupStats(rows) ==
    LET credit2 == 2 * CountStatus(rows, S_done) + CountStatus(rows, S_partial)
        total == Len(rows)
    IN  [done |-> credit2 \div 2,
         total |-> total,
         rate |-> IF total > 0 THEN RoundHalfEven(credit2 * 500, total) ELSE 0]

\* AnalyticsEngine._calculate_category_stats: the categories in the order
\* of their first completion; a completion without an Activity is skipped
_calculate_category_stats(acts, rows) ==
    LET owned == SelectSeq(rows, LAMBDA c : c.activity_id \in DOMAIN acts)
        cat(i) == acts[owned[i].activity_id].category
        firsts == SelectSeq([i \in 1..Len(owned) |-> i],
                            LAMBDA i : \A j \in 1..(i - 1) : cat(j) # cat(i))
    IN  [k \in 1..Len(firsts) |->
            <<cat(firsts[k]),
              GroupStats(SelectSeq(owned,
                  LAMBDA c : acts[c.activity_id].category = cat(firsts[k])))>>]

\* AnalyticsEngine._calculate_day_stats: the days Monday..Sunday that have
\* a completion, keyed by date.strftime("%A")
_calculate_day_stats(rows) ==
    LET on(day) == SelectSeq(rows,
                             LAMBDA c : DayNames[Weekday(c.date) + 1] = day)
        days == SelectSeq(DayNames, LAMBDA day : Len(on(day)) > 0)
    IN  [k \in 1..Len(days) |-> <<days[k], GroupStats(on(days[k]))>>]

\* AnalyticsEngine.calculate_stats, with get_weekly_data's query
calculate_stats(acts, comps, today, target_date) ==
    LET bounds == get_week_bounds(target_date, WeekStartDefault, today)
        rows == SelectSeq(comps, LAMBDA c : /\ c.date >= bounds[1]
                                            /\ c.date <= bounds[2])
        total == Len(rows)
        done == CountStatus(rows, S_done)
        partial == CountStatus(rows, S_partial)
        by_day == _calculate_day_stats(rows)
        sorted_days == StableSort(by_day,
                           [i \in 1..Len(by_day) |-> 0 - by_day[i][2].rate])
        last == sorted_days[Len(sorted_days)]
    IN  IF total = 0
        THEN [week_start |-> bounds[1], week_end |-> bounds[2], total |-> 0,
              done |-> 0, missed |-> 0, partial |-> 0, rescheduled |-> 0,
              completion_rate |-> 0, by_category |-> <<>>, by_day |-> <<>>,
              best_day |-> None, worst_day |-> None]
        ELSE [week_start |-> bounds[1], week_end |-> bounds[2],
              total |-> total,
              done |-> done,
              missed |-> CountStatus(rows, S_missed),
              partial |-> partial,
              rescheduled |-> CountStatus(rows, S_rescheduled),
              completion_rate |-> Rate(done, partial, total),
              by_category |-> _calculate_category_stats(acts, rows),
              by_day |-> by_day,
              best_day |-> IF by_day # <<>> /\ sorted_days[1][2].rate > 0
                           THEN Some(sorted_days[1][1]) ELSE None,
              worst_day |-> IF by_day # <<>> /\ last[2].total > 0
                            THEN Some(last[1]) ELSE None]

\* the first item of a dict's items with the largest (sign = 1) or the
\* smallest (sign = -1) rate: max(items, key=...) and min(items, key=...)
FirstByRate(items, sign) ==
    items[CHOOSE i \in 1..Len(items) :
            /\ \A j \in 1..Len(items) :
                  sign * items[j][2].rate <= sign * items[i][2].rate
            /\ \A j \in 1..(i - 1) : items[j][2].rate # items[i][2].rate]

\* the overall message without the test for total > 0
OverallTier_ChallengeWhenEmpty(rate, total) ==
    IF rate >= 800 THEN <<[rule |-> "excellent", about |-> None]>>
    ELSE IF rate >= 600 THEN <<[rule |-> "good", about |-> None]>>
    ELSE IF rate >= 400 THEN <<[rule |-> "improve", about |-> None]>>
    ELSE <<[rule |-> "challenge", about |-> None]>>

\* the overall message with tiers that start above 80, 60 and 40 percent
OverallTier_Exclusive(rate, total) ==
    IF rate > 800 THEN <<[rule |-> "excellent", about |-> None]>>
    ELSE IF rate > 600 THEN <<[rule |-> "good", about |-> None]>>
    ELSE IF rate > 400 THEN <<[rule |-> "improve", about |-> None]>>
    ELSE IF total > 0 THEN <<[rule |-> "challenge", about |-> None]>>
    ELSE <<>>

\* the overall-performance message of get_insights, if any
OverallTier(rate, total) ==
    IF rate >= 800 THEN <<[rule |-> "excellent", about |-> None]>>
    ELSE IF rate >= 600 THEN <<[rule |-> "good", about |-> None]>>
    ELSE IF rate >= 400 THEN <<[rule |-> "improve", about |-> None]>>
    ELSE IF total > 0 THEN <<[rule |-> "challenge", about |-> None]>>
    ELSE <<>>

\* AnalyticsEngine.get_insights: a message is the rule that emits it and
\* the category or day its text names
get_insights(stats) ==
    LET best_cat == FirstByRate(stats.by_category, 1)
        worst_cat == FirstByRate(stats.by_category, 0 - 1)
    IN  OverallTier(stats.completion_rate, stats.total)
        \o (IF stats.by_category # <<>> /\ best_cat[2].rate > 0
            THEN <<[rule |-> "best_category", about |-> Some(best_cat[1])]>>
            ELSE <<>>)
        \o (IF stats.by_category # <<>> /\ Len(stats.by_category) > 1
               /\ worst_cat[2].rate < 500
            THEN <<[rule |-> "worst_category", about |-> Some(worst_cat[1])]>>
            ELSE <<>>)
        \o (IF stats.best_day # None
            THEN <<[rule |-> "best_day", about |-> stats.best_day]>>
            ELSE <<>>)
        \o (IF stats.missed > stats.done
            THEN <<[rule |-> "missed_exceeds_done", about |-> None]>>
            ELSE <<>>)

\* compare_weeks stepping back six days
compare_weeks_SixDaysBack(acts, comps, today, current_date) ==
    LET date == IF current_date = None THEN today ELSE Get(current_date)
        current_stats == calculate_stats(acts, comps, today, Some(date))
        previous_stats == calculate_stats(acts, comps, today, Some(date - 6))
        rate_change == current_stats.completion_rate
                         - previous_stats.completion_rate
    IN  [current |-> current_stats, previous |-> previous_stats,
         rate_change |-> rate_change, improved |-> rate_change > 0]

\* AnalyticsEngine.compare_weeks
compare_weeks(acts, comps, today, current_date) ==
    LET date == IF current_date = None THEN today ELSE Get(current_date)
        current_stats == calculate_stats(acts, comps, today, Some(date))
        previous_stats == calculate_stats(acts, comps, today, Some(date - 7))
        rate_change == current_stats.completion_rate
                         - previous_stats.completion_rate
    IN  [current |-> current_stats, previous |-> previous_stats,
         rate_change |-> rate_change, improved |-> rate_change > 0]

RECURSIVE CalcStreakLoop(_, _, _)
\* the for loop of _calculate_streak over the rows left; expected_date
\* steps back by timedelta(days=1)
CalcStreakLoop(rows, expected_date, streak) ==
    IF rows = <<>> THEN streak
    ELSE IF rows[1].date = expected_date
         THEN CalcStreakLoop(SubSeq(rows, 2, Len(rows)), expected_date - 1,
                             streak + 1)
    ELSE IF rows[1].date < expected_date
         THEN streak
    ELSE CalcStreakLoop(SubSeq(rows, 2, Len(rows)), expected_date, streak)

\* AnalyticsEngine._calculate_streak
_calculate_streak(comps, clock, activity_id) ==
    LET found == SelectSeq(comps, LAMBDA c : /\ c.activity_id = activity_id
                                             /\ c.status = S_done)
        rows == StableSort(found, [i \in 1..Len(found) |-> 0 - found[i].date])
    IN  IF rows = <<>> THEN 0
        ELSE CalcStreakLoop(rows, clock.date, 0)

\* AnalyticsEngine.get_streaks: one entry per active activity, in the order
\* of the table, then sorted(..., reverse=True) by streak
get_streaks(acts, comps, clock) ==
    LET ids == IdSeq({id \in DOMAIN acts : acts[id].is_active})
        streaks == [i \in 1..Len(ids) |->
                      [activity_id |-> ids[i],
                       title |-> acts[ids[i]].title,
                       category |-> acts[ids[i]].category,
                       streak |-> _calculate_streak(comps, clock, ids[i])]]
    IN  StableSort(streaks, [i \in 1..Len(streaks) |-> 0 - streaks[i].streak])

(***************************************************************************)
(* services/weather_service.py.  The answer of the provider is None when   *)
(* requests.get or raise_for_status raised a RequestException (no          *)
(* connection, timeout, error status), else the decoded JSON.              *)
(***************************************************************************)
\* WeatherService._make_request
_make_request(api_key, response) ==
    IF ~TruthyStr(api_key) THEN None ELSE response

\* WeatherService.get_current
get_current(api_key, response) ==
    LET data == _make_request(api_key, response)
    IN  IF data = None THEN None
        ELSE Some([temperature |-> Get(data).main.temp,
                   description |-> Get(data).weather.description,
                   humidity |-> Get(data).main.humidity,
                   wind_speed |-> Get(data).wind.speed,
                   units |-> "metric"])

(***************************************************************************)
(* core/smart_suggestions.py.  A message is the tuple of its fixed wording *)
(* and the values its text shows.  The weather is the snapshot that        *)
(* WeatherService.get_current returns during the call, or None;            *)
(* temperature and wind speed are in tenths of a unit.                     *)
(***************************************************************************)
Suggestion(message, priority, category, activity_id) ==
    [message |-> message, priority |-> priority, category |-> category,
     activity_id |-> activity_id]

RECURSIVE Concat(_)
\* the lists of a list, joined in order
Concat(lists) ==
    IF lists = <<>> THEN <<>> ELSE Head(lists) \o Concat(Tail(lists))

\* SmartSuggestions._get_weather_suggestions
_get_weather_suggestions(acts, clock, weather, target_date) ==
    IF target_date # clock.date \/ weather = None THEN <<>>
    ELSE
    LET w == Get(weather)
        outdoor_activities ==
            SelectSeq(get_for_date(acts, target_date), LAMBDA a : a.is_outdoor)
        temp == w.temperature
        metric == w.units = "metric"
        desc == Lower(w.description)
        Weather(message, priority) ==
            <<Suggestion(message, priority, "weather", None)>>
    IN  (IF temp > (IF metric THEN 350 ELSE 950)
         THEN Weather(<<"Extreme heat", temp, w.units>>, "high")
         ELSE IF temp > (IF metric THEN 300 ELSE 860)
         THEN Weather(<<"Hot day", temp, w.units>>, "medium")
         ELSE IF temp < (IF metric THEN 0 ELSE 320)
         THEN Weather(<<"Freezing", temp, w.units>>, "high")
         ELSE IF temp < (IF metric THEN 100 ELSE 500)
         THEN Weather(<<"Cold day", temp, w.units>>, "low")
         ELSE <<>>)
        \o (IF \/ Contains(desc, <<"r","a","i","n">>)
               \/ Contains(desc, <<"d","r","i","z","z","l","e">>)
            THEN Weather(<<"Rain expected">>, "high")
                 \o [i \in 1..Len(outdoor_activities) |->
                        Suggestion(<<"Consider moving indoors",
                                     outdoor_activities[i].title>>,
                                   "medium", "weather",
                                   Some(outdoor_activities[i].id))]
            ELSE <<>>)
        \o (IF Contains(desc, <<"s","n","o","w">>)
            THEN Weather(<<"Snow expected">>, "high") ELSE <<>>)
        \o (IF \/ Contains(desc, <<"s","t","o","r","m">>)
               \/ Contains(desc, <<"t","h","u","n","d","e","r">>)
            THEN Weather(<<"Storms expected">>, "high") ELSE <<>>)
        \o (IF w.wind_speed > (IF metric THEN 150 ELSE 330)
            THEN Weather(<<"Strong winds">>, "medium") ELSE <<>>)

\* SmartSuggestions._is_rush_hour: 07:00-09:30 or 16:30-19:00
_is_rush_hour(check_time) ==
    \/ 420 <= check_time /\ check_time <= 570
    \/ 990 <= check_time /\ check_time <= 1140

\* SmartSuggestions._get_time_suggestions
_get_time_suggestions(acts, clock, target_date) ==
    IF target_date # clock.date THEN <<>>
    ELSE
    LET activities_ == get_for_date(acts, target_date)
        current_time == clock.time
        ForActivity(a) ==
            (IF TruthyStr(a.location) /\ _is_rush_hour(a.start_time)
             THEN <<Suggestion(<<"is during rush hour", a.title>>,
                               "medium", "time", Some(a.id))>>
             ELSE <<>>)
            \o (IF /\ a.start_time > current_time
                   /\ a.start_time - current_time <= a.prep_time
                THEN <<Suggestion(<<"starts in", a.title,
                                    a.start_time - current_time>>,
                                  "high", "reminder", Some(a.id))>>
                ELSE <<>>)
        early_activities ==
            SelectSeq(get_for_date(acts, target_date + 1),
                      LAMBDA a : a.start_time < 480)
        earliest ==
            early_activities[CHOOSE i \in 1..Len(early_activities) :
                /\ \A j \in 1..Len(early_activities) :
                      early_activities[i].start_time
                          <= early_activities[j].start_time
                /\ \A j \in 1..(i - 1) :
                      early_activities[j].start_time
                          # early_activities[i].start_time]
    IN  Concat([i \in 1..Len(activities_) |-> ForActivity(activities_[i])])
        \o (IF current_time >= 1200 /\ early_activities # <<>>
            THEN <<Suggestion(<<"Early start tomorrow", earliest.title,
                                earliest.start_time>>,
                              "medium", "time", None)>>
            ELSE <<>>)

\* SmartSuggestions._get_pattern_suggestions
_get_pattern_suggestions(acts, comps, target_date) ==
    LET due == get_for_date(acts, target_date)
        History(a) ==
            LET found == SelectSeq(comps, LAMBDA c : c.activity_id = a.id)
                sorted == StableSort(found,
                              [i \in 1..Len(found) |-> 0 - found[i].date])
            IN  SubSeq(sorted, 1, IF Len(sorted) < 10 THEN Len(sorted) ELSE 10)
        ForActivity(a) ==
            LET rows == History(a)
                done_count == CountStatus(rows, S_done)
                day_completions ==
                    SelectSeq(rows, LAMBDA c :
                        Weekday(c.date) = Weekday(target_date))
                day_missed == CountStatus(day_completions, S_missed)
            IN  IF Len(rows) < 3 THEN <<>>
                ELSE (IF done_count * 100 < 40 * Len(rows)
                      THEN <<Suggestion(<<"often missed", a.title,
                                          (done_count * 100) \div Len(rows)>>,
                                        "medium", "pattern", Some(a.id))>>
                      ELSE <<>>)
                     \o (IF /\ Len(day_completions) >= 2
                            /\ 2 * day_missed > Len(day_completions)
                         THEN <<Suggestion(<<"is often missed on", a.title,
                                             DayNames[Weekday(target_date) + 1]>>,
                                           "low", "pattern", Some(a.id))>>
                         ELSE <<>>)
    IN  Concat([i \in 1..Len(due) |-> ForActivity(due[i])])

\* SmartSuggestions._get_activity_suggestions: the list, or the ValueError
\* of time(end_minutes // 60, end_minutes % 60) for an end at or after 24:00
_get_activity_suggestions(acts, weather, target_date) ==
    LET due == get_for_date(acts, target_date)
        health_activities == SelectSeq(due, LAMBDA a : a.category = C_Health)
        Humidity(a) ==
            IF a.is_outdoor /\ weather # None /\ Get(weather).humidity > 80
            THEN <<Suggestion(<<"High humidity", Get(weather).humidity, a.title>>,
                              "medium", "health", Some(a.id))>>
            ELSE <<>>
        end_minutes(i) == due[i].start_time + Get(due[i].duration)
        gap(i) == due[i + 1].start_time - end_minutes(i)
        Tight(i) ==
            IF TruthyInt(due[i].duration) /\ gap(i) < 15 /\ gap(i) >= 0
            THEN <<Suggestion(<<"Tight schedule", gap(i), due[i].title,
                                due[i + 1].title>>,
                              "low", "time", None)>>
            ELSE <<>>
    IN  IF \E i \in 1..(Len(due) - 1) :
              TruthyInt(due[i].duration) /\ end_minutes(i) \div 60 > 23
        THEN ValueError
        ELSE Ok(Concat([i \in 1..Len(health_activities) |->
                            Humidity(health_activities[i])])
                \o Concat([i \in 1..(Len(due) - 1) |-> Tight(i)]))

\* get_all_suggestions returning the groups' outputs unsorted
get_all_suggestions_NoSort(acts, comps, clock, weather, target_date) ==
    LET date == IF target_date = None THEN clock.date ELSE Get(target_date)
        activity == _get_activity_suggestions(acts, weather, date)
    IN  IF ~activity.ok THEN ValueError
        ELSE Ok(_get_weather_suggestions(acts, clock, weather, date)
                \o _get_time_suggestions(acts, clock, date)
                \o _get_pattern_suggestions(acts, comps, date)
                \o activity.val)

\* SmartSuggestions.get_all_suggestions
get_all_suggestions(acts, comps, clock, weather, target_date) ==
    LET date == IF target_date = None THEN clock.date ELSE Get(target_date)
        activity == _get_activity_suggestions(acts, weather, date)
        suggestions ==
            _get_weather_suggestions(acts, clock, weather, date)
            \o _get_time_suggestions(acts, clock, date)
            \o _get_pattern_suggestions(acts, comps, date)
            \o activity.val
        priority_order(pr) ==
            IF pr = "high" THEN 0 ELSE IF pr = "medium" THEN 1 ELSE 2
    IN  IF ~activity.ok THEN ValueError
        ELSE Ok(StableSort(suggestions,
                    [i \in 1..Len(suggestions) |->
                        priority_order(suggestions[i].priority)]))

\* CompletionManager.get_for_activity: the rows of the activity, latest
\* date first, at most limit of them
get_for_activity(comps, activity_id, limit) ==
    LET found == SelectSeq(comps, LAMBDA c : c.activity_id = activity_id)
        rows == StableSort(found, [i \in 1..Len(found) |-> 0 - found[i].date])
    IN  SubSeq(rows, 1, IF Len(rows) < limit THEN Len(rows) ELSE limit)

(***************************************************************************)
(* utils/date_utils.py parse_date, and api/routers.  A handler gives the   *)
(* status of its response, the value it returns and the tables it leaves:  *)
(* 400 and 404 are the HTTPExceptions it raises, 500 is an exception that  *)
(* leaves the handler uncaught.  Each handler opens its managers and       *)
(* closes them on the way out, so nothing uncommitted survives it.         *)
(***************************************************************************)
\* the dates the texts of the model stand for; dateutil rejects the others
DateTable ==
    [text : {"2024-12-31"}, day : {8}] \cup
    [text : {"2025-01-01"}, day : {9}] \cup
    [text : {"2025-01-02"}, day : {10}]

\* parse_date: today / tomorrow / yesterday, else dateutil's parser
parse_date(date_str, clock) ==
    IF date_str = "today" THEN Ok(clock.date)
    ELSE IF date_str = "tomorrow" THEN Ok(clock.date + 1)
    ELSE IF date_str = "yesterday" THEN Ok(clock.date - 1)
    ELSE IF \E e \in DateTable : e.text = date_str
         THEN Ok((CHOOSE e \in DateTable : e.text = date_str).day)
    ELSE ValueError

\* ActivityManager.get_by_category
get_by_category(acts, category, active_only) ==
    LET validated_category == validate_category(category)
        ids == IdSeq({id \in DOMAIN acts :
                        /\ acts[id].category = validated_category.val
                        /\ active_only => acts[id].is_active})
    IN  IF validated_category.ok
        THEN Ok(SortedByStart([i \in 1..Len(ids) |-> acts[ids[i]]]))
        ELSE ValueError

\* a handler's outcome
Handled(status, val, acts, comps) ==
    [status |-> status, val |-> val, acts |-> acts, comps |-> comps]

\* activity_to_response; start_time is strftime("%H:%M") as <<hour, minute>>
activity_to_response(activity) ==
    [id |-> activity.id, title |-> activity.title,
     start_time |-> <<activity.start_time \div 60, activity.start_time % 60>>,
     category |-> activity.category, description |-> activity.description,
     duration |-> activity.duration, recurrence |-> activity.recurrence,
     location |-> activity.location, prep_time |-> activity.prep_time,
     is_outdoor |-> activity.is_outdoor, is_active |-> activity.is_active]

\* [activity_to_response(a) for a in activities]
ResponseList(list) == [i \in 1..Len(list) |-> activity_to_response(list[i])]

\* GET /activities
list_activities(acts, comps, clock, q) ==
    IF q.all
    THEN Handled(200, ResponseList(get_all(acts, FALSE)), acts, comps)
    ELSE IF TruthyText(q.category)
    THEN LET found == get_by_category(acts, Get(q.category), TRUE)
         IN  IF found.ok
             THEN Handled(200, ResponseList(found.val), acts, comps)
             ELSE Handled(500, "ValueError", acts, comps)
    ELSE IF q.week
    THEN LET found == get_for_week(acts, None, clock.date)
         IN  IF found.ok
             THEN Handled(200, ResponseList(found.val), acts, comps)
             ELSE Handled(500, "ValueError", acts, comps)
    ELSE IF TruthyStr(q.date_str)
    THEN LET target == parse_date(Get(q.date_str), clock)
         IN  IF target.ok
             THEN Handled(200, ResponseList(get_for_date(acts, target.val)),
                          acts, comps)
             ELSE Handled(500, "ValueError", acts, comps)
    ELSE Handled(200, ResponseList(get_for_date(acts, clock.date)), acts, comps)

\* GET /activities/{activity_id}
get_activity(acts, comps, activity_id) ==
    IF get_by_id(acts, activity_id) = None
    THEN Handled(404, "Activity not found", acts, comps)
    ELSE Handled(200, activity_to_response(acts[activity_id]), acts, comps)

\* POST /activities; ActivityCreate has no custom_days
create_activity(acts, comps, clock, data) ==
    LET out == create(acts, clock,
                      [title |-> data.title, start_time |-> data.start_time,
                       category |-> data.category,
                       description |-> data.description,
                       duration |-> data.duration,
                       recurrence |-> data.recurrence, custom_days |-> None,
                       location |-> data.location,
                       prep_time |-> data.prep_time,
                       is_outdoor |-> data.is_outdoor])
    IN  IF out.res.ok
        THEN Handled(200, activity_to_response(out.res.val), out.acts, comps)
        ELSE Handled(400, "ValueError", acts, comps)

\* the fields of ActivityUpdate
UpdateFields ==
    {"title", "start_time", "category", "description", "duration",
     "recurrence", "location", "prep_time", "is_outdoor"}

\* ActivityUpdate: a field the body leaves out and a field the body gives
\* as null are both None
ActivityUpdate(body) ==
    [f \in UpdateFields |-> IF f \in DOMAIN body THEN body[f] ELSE None]

\* PUT /activities/{activity_id}
update_activity(acts, comps, clock, activity_id, body) ==
    LET out == update(acts, clock, activity_id, ActivityUpdate(body))
    IN  IF ~out.res.ok THEN Handled(400, "ValueError", acts, comps)
        ELSE IF out.res.val = None
        THEN Handled(404, "Activity not found", acts, comps)
        ELSE Handled(200, activity_to_response(Get(out.res.val)), out.acts,
                     comps)

\* DELETE /activities/{activity_id}
delete_activity(acts, comps, activity_id) ==
    LET out == delete(acts, comps, activity_id)
    IN  IF ~out.res THEN Handled(404, "Activity not found", acts, comps)
        ELSE Handled(200, "Activity deleted", out.acts, out.comps)

\* POST /activities/{activity_id}/toggle
toggle_activity(acts, comps, clock, activity_id) ==
    LET out == toggle(acts, clock, activity_id)
    IN  IF out.res = None THEN Handled(404, "Activity not found", acts, comps)
        ELSE Handled(200, activity_to_response(Get(out.res)), out.acts, comps)

\* POST /activities/{activity_id}/mark
mark_activity(acts, comps, clock, activity_id, data) ==
    IF get_by_id(acts, activity_id) = None
    THEN Handled(404, "Activity not found", acts, comps)
    ELSE LET target_date == IF TruthyStr(data.date)
                            THEN parse_date(Get(data.date), clock)
                            ELSE Ok(0)
             out == mark(acts, comps, clock, activity_id, data.status,
                         IF TruthyStr(data.date) THEN Some(target_date.val)
                         ELSE None,
                         data.notes)
         IN  IF ~target_date.ok THEN Handled(400, "ValueError", acts, comps)
             ELSE IF ~out.res.ok THEN Handled(400, "ValueError", acts, comps)
             ELSE Handled(200,
                          [activity_id |-> Get(out.res.val).activity_id,
                           date |-> Get(out.res.val).date,
                           status |-> Get(out.res.val).status,
                           notes |-> Get(out.res.val).notes],
                          acts, out.comps)

\* GET /activities/{activity_id}/history
get_activity_history(acts, comps, clock, activity_id, limit) ==
    IF get_by_id(acts, activity_id) = None
    THEN Handled(404, "Activity not found", acts, comps)
    ELSE LET rows == get_for_activity(comps, activity_id, limit)
             streak == get_streak(comps, clock, activity_id)
         IN  IF ~streak.ok THEN Handled(500, "ValueError", acts, comps)
             ELSE Handled(200,
                          [activity |-> activity_to_response(acts[activity_id]),
                           streak |-> streak.val,
                           history |-> [i \in 1..Len(rows) |->
                                          [date |-> rows[i].date,
                                           status |-> rows[i].status,
                                           notes |-> rows[i].notes]]],
                          acts, comps)

\* GET /analytics
get_analytics(acts, comps, clock, date_str) ==
    LET target_date == IF TruthyStr(date_str)
                       THEN parse_date(Get(date_str), clock)
                       ELSE Ok(0)
        stats == calculate_stats(acts, comps, clock.date,
                                 IF TruthyStr(date_str)
                                 THEN Some(target_date.val) ELSE None)
        streaks == get_streaks(acts, comps, clock)
    IN  IF ~target_date.ok THEN Handled(500, "ValueError", acts, comps)
        ELSE Handled(200,
                     [stats |-> stats, insights |-> get_insights(stats),
                      streaks |-> SubSeq(streaks, 1,
                                     IF Len(streaks) < 5 THEN Len(streaks)
                                     ELSE 5)],
                     acts, comps)

\* GET /analytics/compare
get_compare(acts, comps, clock, date_str) ==
    LET target_date == IF TruthyStr(date_str)
                       THEN parse_date(Get(date_str), clock)
                       ELSE Ok(0)
        comparison == compare_weeks(acts, comps, clock.date,
                                    IF TruthyStr(date_str)
                                    THEN Some(target_date.val) ELSE None)
    IN  IF ~target_date.ok THEN Handled(500, "ValueError", acts, comps)
        ELSE Handled(200,
                     [current_rate |-> comparison.current.completion_rate,
                      previous_rate |-> comparison.previous.completion_rate,
                      change |-> comparison.rate_change,
                      improved |-> comparison.improved],
                     acts, comps)

\* the handler the request is routed to
Route(acts, comps, clock, req) ==
    CASE req.route = "GET /activities" ->
            list_activities(acts, comps, clock, req.q)
      [] req.route = "GET /activities/{id}" ->
            get_activity(acts, comps, req.id)
      [] req.route = "POST /activities" ->
            create_activity(acts, comps, clock, req.data)
      [] req.route = "PUT /activities/{id}" ->
            update_activity(acts, comps, clock, req.id, req.body)
      [] req.route = "DELETE /activities/{id}" ->
            delete_activity(acts, comps, req.id)
      [] req.route = "POST /activities/{id}/toggle" ->
            toggle_activity(acts, comps, clock, req.id)
      [] req.route = "POST /activities/{id}/mark" ->
            mark_activity(acts, comps, clock, req.id, req.data)
      [] req.route = "GET /activities/{id}/history" ->
            get_activity_history(acts, comps, clock, req.id, 10)
      [] req.route = "GET /analytics" ->
            get_analytics(acts, comps, clock, req.date_str)
      [] req.route = "GET /analytics/compare" ->
            get_compare(acts, comps, clock, req.date_str)

(***************************************************************************)
(* The calls, one action each.  A call is one short-lived session: it      *)
(* commits or raises before the next call starts.                          *)
(***************************************************************************)
EmptyTables ==
    /\ activities = <<>>
    /\ completions = <<>>
    /\ lastMark = <<>>
    /\ lastDone = <<>>
    /\ sessions = <<>>
    /\ born = <<>>

EmptyStore ==
    /\ EmptyTables
    /\ ret = [op |-> "init"]

\* the clock moves to a later time of the day
TickTime ==
    /\ \E t \in ClockTimes : t > now.time /\ now' = [now EXCEPT !.time = t]
    /\ ret' = [op |-> "tick"]
    /\ UNCHANGED <<activities, completions, lastMark, born, lastDone, sessions>>

\* the clock moves to the next day, not beyond day last
TickDay(last) ==
    /\ now.date < last
    /\ \E t \in ClockTimes : now' = [date |-> now.date + 1, time |-> t]
    /\ ret' = [op |-> "tick"]
    /\ UNCHANGED <<activities, completions, lastMark, born, lastDone, sessions>>

Create(in) ==
    \E out \in {create(activities, now, in)} :
        /\ Cardinality(DOMAIN activities) < MaxActs
        /\ NewId(DOMAIN activities) <= MaxActs
        /\ activities' = out.acts
        /\ ret' = [op |-> "create", in |-> in, res |-> out.res]
        /\ born' = IF out.res.ok
                   THEN [id \in DOMAIN born \cup {out.res.val.id} |->
                           IF id = out.res.val.id THEN now ELSE born[id]]
                   ELSE born
        /\ UNCHANGED <<completions, now, lastMark, lastDone, sessions>>

Update(activity_id, in) ==
    \E out \in {update(activities, now, activity_id, in)} :
        /\ activities' = out.acts
        /\ ret' = [op |-> "update", id |-> activity_id, in |-> in, res |-> out.res]
        /\ UNCHANGED <<completions, now, lastMark, born, lastDone, sessions>>

Toggle(activity_id) ==
    \E out \in {toggle(activities, now, activity_id)} :
        /\ activities' = out.acts
        /\ ret' = [op |-> "toggle", id |-> activity_id, res |-> out.res]
        /\ UNCHANGED <<completions, now, lastMark, born, lastDone, sessions>>

\* the pairs of a history that do not belong to activity_id
Forget(h, activity_id) ==
    [k \in {x \in DOMAIN h : x[1] # activity_id} |-> h[k]]

Delete(activity_id) ==
    \E out \in {delete(activities, completions, activity_id)} :
        /\ activities' = out.acts
        /\ completions' = out.comps
        /\ ret' = [op |-> "delete", id |-> activity_id, res |-> out.res,
                   removed |-> Len(completions) - Len(out.comps)]
        /\ lastMark' = Forget(lastMark, activity_id)
        /\ born' = [id \in DOMAIN born \ {activity_id} |-> born[id]]
        /\ lastDone' = Forget(lastDone, activity_id)
        /\ UNCHANGED <<now, sessions>>

Mark(activity_id, status, target_date, notes) ==
    \E out \in {mark(activities, completions, now, activity_id, status,
                      target_date, notes)},
       key \in {<<activity_id,
                  IF target_date = None THEN now.date ELSE Get(target_date)>>} :
        /\ Len(out.comps) <= MaxRows
        /\ completions' = out.comps
        /\ ret' = [op |-> "mark", id |-> activity_id, status |-> status,
                   date |-> key[2], res |-> out.res]
        /\ lastMark' = IF out.res.ok /\ out.res.val # None
                       THEN [k \in DOMAIN lastMark \cup {key} |->
                               IF k = key THEN Lower(status) ELSE lastMark[k]]
                       ELSE lastMark
        /\ lastDone' = IF out.res.ok /\ out.res.val # None
                           /\ Lower(status) = S_done
                        THEN [k \in DOMAIN lastDone \cup {key} |->
                                IF k = key THEN now ELSE lastDone[k]]
                        ELSE lastDone
        /\ UNCHANGED <<activities, now, born, sessions>>

GetStreak(activity_id) ==
    /\ ret' = [op |-> "get_streak", id |-> activity_id,
               res |-> get_streak(completions, now, activity_id)]
    /\ UNCHANGED <<activities, completions, now, lastMark, born, lastDone, sessions>>

GetStats(start_date, end_date) ==
    /\ ret' = [op |-> "get_stats", start_date |-> start_date,
               end_date |-> end_date,
               res |-> get_stats(completions, start_date, end_date)]
    /\ UNCHANGED <<activities, completions, now, lastMark, born, lastDone, sessions>>

CalculateStats(target_date) ==
    /\ ret' = [op |-> "calculate_stats", date |-> target_date,
               res |-> calculate_stats(activities, completions, now.date,
                                       target_date)]
    /\ UNCHANGED <<activities, completions, now, lastMark, born, lastDone, sessions>>

\* get_insights on the stats the last calculate_stats returned
GetInsights ==
    /\ ret.op = "calculate_stats"
    /\ ret' = [op |-> "get_insights", stats |-> ret.res,
               res |-> get_insights(ret.res)]
    /\ UNCHANGED <<activities, completions, now, lastMark, born, lastDone, sessions>>

CompareWeeks(current_date) ==
    /\ ret' = [op |-> "compare_weeks", date |-> current_date,
               res |-> compare_weeks(activities, completions, now.date,
                                     current_date)]
    /\ UNCHANGED <<activities, completions, now, lastMark, born, lastDone, sessions>>

\* get_all_suggestions while the weather service answers with weather
GetAllSuggestions(weather, target_date) ==
    /\ ret' = [op |-> "get_all_suggestions", weather |-> weather,
               date |-> target_date,
               res |-> get_all_suggestions(activities, completions, now,
                                           weather, target_date)]
    /\ UNCHANGED <<activities, completions, now, lastMark, born, lastDone, sessions>>

GetStreaks ==
    /\ ret' = [op |-> "get_streaks",
               res |-> get_streaks(activities, completions, now)]
    /\ UNCHANGED <<activities, completions, now, lastMark, born, lastDone, sessions>>

\* one HTTP request, routed and answered; the histories follow the manager
\* calls of the other actions and are left as they are
Request(req) ==
    \E out \in {Route(activities, completions, now, req)} :
        /\ activities' = out.acts
        /\ completions' = out.comps
        /\ ret' = [op |-> "request", req |-> req, status |-> out.status,
                   val |-> out.val]
        /\ UNCHANGED <<now, lastMark, born, lastDone, sessions>>

\* POST /activities/{id}/mark of request p up to the queries of mark: the
\* handler's own lookup of the activity, then validate_status and the
\* search for the existing row, in p's session
MarkRead(p) ==
    /\ sessions[p].pc = "start"
    /\ \E req \in {sessions[p]} :
       \E out \in {IF get_by_id(activities, req.id) = None THEN Ok(None)
                   ELSE mark_read(activities, completions, now, req.id,
                                  req.status, req.date)} :
          /\ sessions' =
                [sessions EXCEPT ![p] =
                    IF ~out.ok THEN [req EXCEPT !.pc = "done", !.code = 400]
                    ELSE IF out.val = None
                    THEN [req EXCEPT !.pc = "done", !.code = 404]
                    ELSE [req EXCEPT !.pc = "read", !.existing = Get(out.val)]]
          /\ ret' = [op |-> "mark_read", p |-> p, res |-> out]
    /\ UNCHANGED <<activities, completions, now, lastMark, born, lastDone>>

\* the rest of request p: the UPDATE or INSERT and the commit
MarkWrite(p) ==
    /\ sessions[p].pc = "read"
    /\ \E req \in {sessions[p]} :
       \E out \in {mark_write(completions, now, req.existing, req.id,
                              req.status, req.date, None)},
          key \in {<<req.id,
                     IF req.date = None THEN now.date ELSE Get(req.date)>>} :
          /\ completions' = out.comps
          /\ sessions' = [sessions EXCEPT ![p] =
                             [req EXCEPT !.pc = "done", !.code = 200]]
          /\ ret' = [op |-> "mark_write", p |-> p, res |-> out.res]
          /\ lastMark' = [k \in DOMAIN lastMark \cup {key} |->
                            IF k = key THEN Lower(req.status) ELSE lastMark[k]]
          /\ lastDone' = IF Lower(req.status) = S_done
                         THEN [k \in DOMAIN lastDone \cup {key} |->
                                 IF k = key THEN now ELSE lastDone[k]]
                         ELSE lastDone
    /\ UNCHANGED <<activities, now, born>>

\* the calls of one ActivityManager kept by its owner: its session stays
\* open from call to call, and nothing rolls it back when a call raises
MgrGetById(activity_id) ==
    /\ ret' = [op |-> "get_by_id", id |-> activity_id,
               res |-> get_by_id(SessionView(activities, sessions.m.dirty),
                                 activity_id)]
    /\ UNCHANGED <<activities, completions, now, lastMark, born, lastDone,
                   sessions>>

MgrUpdate(activity_id, in) ==
    IF activity_id \notin DOMAIN activities
    THEN /\ ret' = [op |-> "update", id |-> activity_id, in |-> in,
                    res |-> Ok(None)]
         /\ UNCHANGED <<activities, completions, now, lastMark, born,
                        lastDone, sessions>>
    ELSE \E out \in {AssignFrom(1, SessionView(activities,
                                    sessions.m.dirty)[activity_id], in)} :
            /\ IF out.ok
               THEN /\ activities' =
                         Commit(activities,
                                [id \in DOMAIN sessions.m.dirty
                                           \cup {activity_id} |->
                                    IF id = activity_id THEN out.obj
                                    ELSE sessions.m.dirty[id]], now)
                    /\ sessions' = [sessions EXCEPT !.m.dirty = <<>>]
                    /\ ret' = [op |-> "update", id |-> activity_id, in |-> in,
                               res |-> Ok(Some(activities'[activity_id]))]
               ELSE /\ activities' = activities
                    /\ sessions' =
                         [sessions EXCEPT !.m.dirty =
                             [id \in DOMAIN @ \cup {activity_id} |->
                                 IF id = activity_id THEN out.obj ELSE @[id]]]
                    /\ ret' = [op |-> "update", id |-> activity_id, in |-> in,
                               res |-> ValueError]
            /\ UNCHANGED <<completions, now, lastMark, born, lastDone>>

MgrToggle(activity_id) ==
    \E out \in {toggle(Commit(activities, sessions.m.dirty, now), now,
                       activity_id)} :
        /\ activities' = IF out.res = None THEN activities ELSE out.acts
        /\ sessions' = IF out.res = None THEN sessions
                       ELSE [sessions EXCEPT !.m.dirty = <<>>]
        /\ ret' = [op |-> "toggle", id |-> activity_id, res |-> out.res]
        /\ UNCHANGED <<completions, now, lastMark, born, lastDone>>

MgrCreate(in) ==
    \E out \in {create(Commit(activities, sessions.m.dirty, now), now, in)} :
        /\ activities' = IF out.res.ok THEN out.acts ELSE activities
        /\ sessions' = IF out.res.ok THEN [sessions EXCEPT !.m.dirty = <<>>]
                       ELSE sessions
        /\ ret' = [op |-> "create", in |-> in, res |-> out.res]
        /\ born' = IF out.res.ok
                   THEN [id \in DOMAIN born \cup {out.res.val.id} |->
                           IF id = out.res.val.id THEN now ELSE born[id]]
                   ELSE born
        /\ UNCHANGED <<completions, now, lastMark, lastDone>>

\* _is_scheduled_for_date on an Activity object
IsScheduled(activity, target_date) ==
    /\ ret' = [op |-> "_is_scheduled_for_date", activity |-> activity,
               date |-> target_date,
               res |-> _is_scheduled_for_date(activity, target_date)]
    /\ UNCHANGED <<activities, completions, now, lastMark, born, lastDone, sessions>>

GetForDate(target_date) ==
    /\ ret' = [op |-> "get_for_date", date |-> target_date,
               res |-> get_for_date(activities, target_date)]
    /\ UNCHANGED <<activities, completions, now, lastMark, born, lastDone, sessions>>

GetForWeek(target_date) ==
    /\ ret' = [op |-> "get_for_week", date |-> target_date,
               res |-> get_for_week(activities, target_date, now.date)]
    /\ UNCHANGED <<activities, completions, now, lastMark, born, lastDone, sessions>>

GetWeekBounds(target_date, week_start) ==
    /\ ret' = [op |-> "get_week_bounds", date |-> target_date,
               week_start |-> week_start,
               res |-> get_week_bounds(target_date, week_start, now.date)]
    /\ UNCHANGED <<activities, completions, now, lastMark, born, lastDone, sessions>>

(***************************************************************************)
(* The week window: get_week_bounds applied to every date of the window,   *)
(* named or defaulted to today, under each spelling of the convention.     *)
(***************************************************************************)
OptDays == {None} \cup {Some(d) : d \in Days}

WeekStarts ==
    {W_monday, W_sunday, <<"M","o","n","d","a","y">>, <<"S","U","N","D","A","Y">>}

WeekInit ==
    /\ EmptyStore
    /\ now \in [date : Days, time : {450}]

WeekNext ==
    \E d \in OptDays, w \in WeekStarts : GetWeekBounds(d, w)

SpecWeek == WeekInit /\ [][WeekNext]_vars

\* the date a call with an Optional date is about
DateOf(target_date) == IF target_date = None THEN now.date ELSE Get(target_date)

\* C9: for every reference date d and both week-start conventions,
\* get_week_bounds returns (s, e) with s <= d <= e and e = s + 6 days, s
\* is a Monday under 'monday' and a Sunday under 'sunday', and a date has
\* the same bounds iff it lies in s..e.
C9_WeekBounds ==
    ret.op = "get_week_bounds" =>
        LET d == DateOf(ret.date)
            s == ret.res[1]
            e == ret.res[2]
        IN  /\ s <= d /\ d <= e
            /\ e = s + 6
            /\ Lower(ret.week_start) = W_monday => get_day_name(s) = W_monday
            /\ Lower(ret.week_start) = W_sunday => get_day_name(s) = W_sunday
            /\ \A d2 \in Days :
                  (get_week_bounds(Some(d2), ret.week_start, now.date) = ret.res)
                      <=> (s <= d2 /\ d2 <= e)

\* a Sunday-start week that begins in December and ends in January
C9_Witness ==
    /\ ret.op = "get_week_bounds"
    /\ ret.week_start = W_sunday
    /\ ret.date = Some(9)
    /\ ret.res = <<6, 12>>

(***************************************************************************)
(* The recurrence rule alone: _is_scheduled_for_date applied to Activity   *)
(* objects of every recurrence (the six kinds, one that is not normalised  *)
(* and one that is unknown), custom-days text and creation date.           *)
(***************************************************************************)
CustomDaysTexts ==
    {None, Some(<<>>),
     Some(<<"m","o","n",",","w","e","d",",","f","r","i">>),
     Some(<<"S","a","t",",","S","U","N">>),
     Some(<<"t","h","u","r","s","d","a","y">>),
     Some(<<"s","u","m","m","o","n","s">>)}

Recurrences ==
    {R_once, R_daily, R_weekdays, R_weekends, R_weekly, R_custom,
     <<"D","a","i","l","y">>, <<"m","o","n","t","h","l","y">>}

ProbeActivities ==
    [id : {1}, title : {"Run"}, description : {None}, category : {C_Health},
     start_time : {480}, duration : {Some(30)}, recurrence : Recurrences,
     custom_days : CustomDaysTexts, location : {None}, prep_time : {15},
     is_outdoor : {TRUE}, is_active : {TRUE},
     created_at : [date : Days, time : {450}],
     updated_at : [date : {MaxDay}, time : {450}]]

\* the call to make is drawn with the initial state
DueInit ==
    /\ EmptyTables
    /\ now = [date |-> MaxDay, time |-> 450]
    /\ ret \in [op : {"call"}, activity : ProbeActivities, date : Days]

DueNext ==
    /\ ret.op = "call"
    /\ IsScheduled(ret.activity, ret.date)

SpecDue == DueInit /\ [][DueNext]_vars

\* the lowercase names of Monday..Friday and of Saturday, Sunday
WorkDayNames == {Lower(DayNames[i]) : i \in 1..5}
RestDayNames == {Lower(DayNames[i]) : i \in 6..7}

\* the 3-letter lowercase abbreviation of the weekday of d
Abbrev(d) ==
    << <<"m","o","n">>, <<"t","u","e">>, <<"w","e","d">>, <<"t","h","u">>,
       <<"f","r","i">>, <<"s","a","t">>, <<"s","u","n">> >>[(d % 7) + 1]

\* C4: a 'weekdays' activity is due on d iff d is Monday..Friday, a
\* 'weekends' activity iff d is Saturday or Sunday, so on every date
\* exactly one of the two rules is true; a 'daily' activity is always due.
C4_WeekdaysWeekends ==
    ret.op = "_is_scheduled_for_date" =>
        LET a == ret.activity
            d == ret.date
            asWeekdays == [a EXCEPT !.recurrence = R_weekdays]
            asWeekends == [a EXCEPT !.recurrence = R_weekends]
        IN  /\ a.recurrence = R_weekdays =>
                  (ret.res <=> get_day_name(d) \in WorkDayNames)
            /\ a.recurrence = R_weekends =>
                  (ret.res <=> get_day_name(d) \in RestDayNames)
            /\ a.recurrence = R_daily => ret.res
            /\ _is_scheduled_for_date(asWeekdays, d)
                  # _is_scheduled_for_date(asWeekends, d)

\* a 'weekends' activity found due on Saturday 2025-01-04
C4_Witness ==
    /\ ret.op = "_is_scheduled_for_date"
    /\ ret.activity.recurrence = R_weekends
    /\ ret.date = 12
    /\ get_day_name(ret.date) = <<"s","a","t","u","r","d","a","y">>
    /\ ret.res

\* C6: a 'custom' activity is due on a date iff the date's 3-letter
\* lowercase weekday abbreviation is a substring of the lowercased
\* custom-days text; with custom-days absent or empty it is due on no
\* date, and an activity of none of the six kinds is due on no date.
C6_CustomDays ==
    ret.op = "_is_scheduled_for_date" =>
        LET a == ret.activity
        IN  /\ a.recurrence = R_custom /\ a.custom_days \notin {None, Some(<<>>)} =>
                  (ret.res <=> Contains(Lower(Get(a.custom_days)), Abbrev(ret.date)))
            /\ a.recurrence = R_custom /\ a.custom_days \in {None, Some(<<>>)} =>
                  ~ret.res
            /\ ~InList(a.recurrence, RECURRENCE_OPTIONS) => ~ret.res

\* "Sat,SUN" is due on Sunday 2024-12-29 through the lowercased text
C6_Witness ==
    /\ ret.op = "_is_scheduled_for_date"
    /\ ret.activity.recurrence = R_custom
    /\ ret.activity.custom_days = Some(<<"S","a","t",",","S","U","N">>)
    /\ ret.date = 6
    /\ ret.res

(***************************************************************************)
(* One activity through its life: created, edited, toggled, deleted and    *)
(* created again while the days pass, and asked for its due dates.         *)
(***************************************************************************)
NoChange ==
    [title |-> None, start_time |-> None, category |-> None,
     description |-> None, duration |-> None, recurrence |-> None,
     location |-> None, prep_time |-> None, is_outdoor |-> None]

EditEverything ==
    [title |-> Some("Jog"), start_time |-> Some("18:30"),
     category |-> Some(<<"w","o","r","k">>), description |-> Some("slow"),
     duration |-> Some(45), recurrence |-> None, location |-> Some("Park"),
     prep_time |-> Some(30), is_outdoor |-> Some(TRUE)]

EditInputs ==
    {NoChange, EditEverything,
     [NoChange EXCEPT !.start_time = Some("09:00")],
     [NoChange EXCEPT !.recurrence = Some(R_once)],
     [NoChange EXCEPT !.recurrence = Some(<<"W","E","E","K","L","Y">>)],
     [NoChange EXCEPT !.title = Some("Jog"),
                      !.category = Some(<<"f","u","n">>)]}

EditCreateInputs ==
    [title : {"Run"}, start_time : {"08:00", "soon"},
     category : {<<"h","e","a","l","t","h">>}, description : {None},
     duration : {Some(30)},
     recurrence : {R_once, R_weekly, <<"O","n","c","e">>},
     custom_days : {None}, location : {None}, prep_time : {15},
     is_outdoor : {FALSE}]

\* the dates asked about: around today, and a week from today
NearDays ==
    {d \in Days : d - now.date \in {0 - 1, 0, 1, 6, 7}}

EditInit ==
    /\ EmptyStore
    /\ now = [date |-> 0, time |-> 450]

EditNext ==
    \/ TickDay(MaxTicks)
    \/ \E in \in EditCreateInputs : activities = <<>> /\ Create(in)
    \/ \E id \in 1..2, in \in EditInputs : Update(id, in)
    \/ \E id \in 1..2 : Toggle(id)
    \/ \E id \in 1..2 : Delete(id)
    \/ \E id \in DOMAIN activities, d \in NearDays :
            IsScheduled(activities[id], d)

SpecEdit == EditInit /\ [][EditNext]_vars

\* C3: an activity with recurrence 'once' is due on exactly one date, the
\* calendar date of its creation timestamp, and on no earlier or later
\* date, whatever update and toggle calls it has been through.
C3_OnceOnCreationDate ==
    /\ \A id \in DOMAIN activities :
          activities[id].recurrence = R_once =>
              \A d \in Days :
                  _is_scheduled_for_date(activities[id], d) <=> d = born[id].date
    /\ ret.op = "_is_scheduled_for_date" /\ ret.activity.recurrence = R_once =>
          (ret.res <=> ret.date = born[ret.activity.id].date)

\* an edited and deactivated one-time activity found due on its creation
\* date, a day after that date
C3_Witness ==
    /\ ret.op = "_is_scheduled_for_date"
    /\ ret.activity.recurrence = R_once
    /\ ret.activity.title = "Jog"
    /\ ~ret.activity.is_active
    /\ ret.activity.updated_at.date > born[ret.activity.id].date
    /\ now.date > ret.date
    /\ ret.res

\* C5: a 'weekly' activity is due on a date iff the date's weekday is the
\* weekday of its creation timestamp, and no update or toggle call changes
\* the creation timestamp, so the weekday it recurs on is the weekday of
\* the day create added it.
C5_WeeklyAnchor ==
    \A id \in DOMAIN activities :
        /\ activities[id].created_at = born[id]
        /\ activities[id].recurrence = R_weekly =>
              \A d \in Days :
                  _is_scheduled_for_date(activities[id], d)
                      <=> Weekday(d) = Weekday(born[id].date)

\* a weekly activity created on a Tuesday, edited in every field on a later
\* day and toggled, found due on the Tuesday a week after its creation
C5_Witness ==
    /\ ret.op = "_is_scheduled_for_date"
    /\ ret.activity.recurrence = R_weekly
    /\ born[ret.activity.id].date = 1
    /\ ret.activity.start_time = 1110
    /\ ret.activity.title = "Jog"
    /\ ~ret.activity.is_active
    /\ ret.activity.updated_at.date > 1
    /\ ret.date = 8
    /\ ret.res

(***************************************************************************)
(* The schedule of a store of several activities: daily and weekly         *)
(* activities at two start times, created on one of the first days of the  *)
(* window, toggled, and listed for a date and for a week.                  *)
(***************************************************************************)
ScheduleCreateInputs ==
    [title : {"A"}, start_time : {"09:00", "8am"}, category : {C_Other},
     description : {None}, duration : {None},
     recurrence : {R_weekly, R_daily},
     custom_days : {None}, location : {None}, prep_time : {15},
     is_outdoor : {FALSE}]

\* the weeks asked about: this week (by default) and the next two
NearWeeks ==
    {None} \cup {Some(d) : d \in {x \in Days : x - now.date \in {7, 14}}}

ScheduleInit ==
    /\ EmptyStore
    /\ now \in [date : 0..MaxTicks, time : {450}]

ScheduleNext ==
    \/ \E in \in ScheduleCreateInputs : Create(in)
    \/ \E id \in 1..MaxActs : Toggle(id)
    \/ \E d \in NearDays : GetForDate(d)
    \/ \E d \in NearWeeks : GetForWeek(d)

SpecSchedule == ScheduleInit /\ [][ScheduleNext]_vars

\* the ids of a list of activities
IdsOf(list) == {list[i].id : i \in 1..Len(list)}

\* no activity twice, and start times ascending
Distinct(list) == \A i, j \in 1..Len(list) : list[i].id = list[j].id => i = j
Ascending(list) ==
    \A i, j \in 1..Len(list) : i < j => list[i].start_time <= list[j].start_time

\* the store of the scenario: weekly A created on a Wednesday at 09:00 and
\* daily B at 08:00, both active
ScenarioAB(A, B) ==
    /\ DOMAIN activities = {A, B} /\ A # B
    /\ activities[A].recurrence = R_weekly /\ activities[A].start_time = 540
    /\ get_day_name(born[A].date) = Lower(DayNames[3])
    /\ activities[B].recurrence = R_daily /\ activities[B].start_time = 480
    /\ activities[A].is_active /\ activities[B].is_active

\* C7: get_for_date(date) returns exactly the activities that are active
\* and due on the date, each once, by ascending start time; inactive
\* activities are not returned and stay stored; with weekly A (created on
\* a Wednesday, 09:00) and daily B (08:00) it returns [B, A] on a
\* Wednesday and [B] on a Tuesday.
C7_GetForDate ==
    ret.op = "get_for_date" =>
        /\ IdsOf(ret.res) =
              {id \in DOMAIN activities :
                  /\ activities[id].is_active
                  /\ _is_scheduled_for_date(activities[id], ret.date)}
        /\ \A i \in 1..Len(ret.res) : ret.res[i] = activities[ret.res[i].id]
        /\ Distinct(ret.res)
        /\ Ascending(ret.res)
        /\ DOMAIN born = DOMAIN activities
        /\ \A A, B \in DOMAIN activities : ScenarioAB(A, B) =>
              /\ get_day_name(ret.date) = Lower(DayNames[3]) =>
                    ret.res = <<activities[B], activities[A]>>
              /\ get_day_name(ret.date) = Lower(DayNames[2]) =>
                    ret.res = <<activities[B]>>

\* the scenario on Wednesday 2025-01-01, A created before B
C7_Witness ==
    /\ ret.op = "get_for_date"
    /\ ScenarioAB(1, 2)
    /\ ret.date = 9
    /\ ret.res = <<activities[2], activities[1]>>

\* an inactive daily activity is left out of the list and is still stored
C7_WitnessInactive ==
    /\ ret.op = "get_for_date"
    /\ \E id \in DOMAIN activities :
          /\ ~activities[id].is_active
          /\ activities[id].recurrence = R_daily
          /\ id \notin IdsOf(ret.res)
    /\ ret.res # <<>>

\* C8: the list get_for_week returns never holds the same activity twice,
\* even when the activity is due on several days of the week, and its
\* elements are in ascending order of start time.
C8_GetForWeek ==
    ret.op = "get_for_week" /\ ret.res.ok =>
        /\ Distinct(ret.res.val)
        /\ Ascending(ret.res.val)

\* a week's list with a daily activity (due on all seven days) created
\* before an earlier-starting one
C8_Witness ==
    /\ ret.op = "get_for_week" /\ ret.res.ok
    /\ Len(ret.res.val) = 2
    /\ ret.res.val[1].id = 2 /\ ret.res.val[2].id = 1
    /\ ret.res.val[2].recurrence = R_daily
    /\ ret.res.val[1].start_time < ret.res.val[2].start_time

\* the Monday of the week the last get_for_week call was about
AskedWeekStart ==
    LET d == IF ret.date = None THEN now.date ELSE Get(ret.date)
    IN  d - Weekday(d)

\* the active activities due on at least one of the seven days of the week
DueInAskedWeek ==
    {id \in DOMAIN activities :
        /\ activities[id].is_active
        /\ \E k \in 0..6 :
              _is_scheduled_for_date(activities[id], AskedWeekStart + k)}

\* C28: for every reference date, those whose week spans the end of a month
\* or year included, get_for_week ends without error and returns exactly
\* the active activities due on at least one of the days week_start ..
\* week_start + 6.
C28_WholeWeek ==
    ret.op = "get_for_week" =>
        /\ ret.res.ok
        /\ IdsOf(ret.res.val) = DueInAskedWeek

\* what get_for_week does: the set as stated for a week that holds no last
\* day of a month, the ValueError of date.replace for a week that does
WeekWithinMonth ==
    ret.op = "get_for_week" =>
        IF \E k \in 0..6 :
              DayOf(AskedWeekStart + k) = MonthLen(AskedWeekStart + k)
        THEN ret.res = ValueError
        ELSE ret.res.ok /\ IdsOf(ret.res.val) = DueInAskedWeek

(***************************************************************************)
(* The ledger: two stored activities, and marks for today and yesterday    *)
(* around the turn of the year, for stored and unknown activities, with    *)
(* statuses in several spellings and statuses that are not statuses.       *)
(***************************************************************************)
LedgerCreateInput ==
    [title |-> "Run", start_time |-> "08:00", category |-> C_Health,
     description |-> None, duration |-> Some(30), recurrence |-> R_daily,
     custom_days |-> None, location |-> None, prep_time |-> 15,
     is_outdoor |-> TRUE]

\* the activities table after two create calls at clock
TwoActivities(clock) ==
    create(create(<<>>, clock, LedgerCreateInput).acts, clock,
           LedgerCreateInput).acts

StatusInputs ==
    {S_done, <<"M","i","s","s","e","d">>, <<"s","k","i","p","p","e","d">>}

LedgerInit ==
    /\ activities = TwoActivities([date |-> 0, time |-> 450])
    /\ born = [id \in {1, 2} |-> [date |-> 0, time |-> 450]]
    /\ completions = <<>>
    /\ lastMark = <<>>
    /\ lastDone = <<>>
    /\ sessions = <<>>
    /\ ret = [op |-> "init"]
    /\ now \in [date : {8, 9}, time : {450}]

LedgerNext ==
    \E id \in 1..3, status \in StatusInputs,
       d \in {None, Some(now.date - 1)} :
        Mark(id, status, d, None)

SpecLedger == LedgerInit /\ [][LedgerNext]_vars

\* C1: after any sequence of mark calls the store holds at most one
\* Completion per (activity_id, date) pair, and the status stored for a
\* pair is the status of the last mark that returned a Completion for it.
C1_OnePerPair ==
    /\ \A i, j \in 1..Len(completions) :
          /\ completions[i].activity_id = completions[j].activity_id
          /\ completions[i].date = completions[j].date
          => i = j
    /\ \A i \in 1..Len(completions) :
          LET key == <<completions[i].activity_id, completions[i].date>>
          IN  key \in DOMAIN lastMark /\ completions[i].status = lastMark[key]
    /\ \A key \in DOMAIN lastMark :
          \E i \in 1..Len(completions) :
              key = <<completions[i].activity_id, completions[i].date>>

\* a pair marked done and then missed holds one record, missed, beside the
\* records of another date and another activity
C1_Witness ==
    /\ ret.op = "mark" /\ ret.res.ok /\ ret.res.val # None
    /\ Get(ret.res.val).status = S_missed
    /\ Get(ret.res.val).completed_at # None
    /\ Len(completions) = 3
    /\ Cardinality({i \in 1..3 : completions[i].activity_id = ret.id}) = 2
    /\ Cardinality({i \in 1..3 : completions[i].date = ret.date}) = 2

\* C10: a mark whose status, lowercased, is not one of done, missed,
\* partial, rescheduled fails with the validation error and leaves the
\* completions as they were, whether or not the activity exists and
\* whether or not the pair has a record.
C10_InvalidStatus ==
    [][ret'.op = "mark" /\ ~InList(Lower(ret'.status), COMPLETION_STATUSES) =>
          /\ ret'.res = ValueError
          /\ completions' = completions]_vars

\* a mark with status 'skipped' refused for a pair that has a record
C10_Witness ==
    /\ ret.op = "mark"
    /\ ret.status = <<"s","k","i","p","p","e","d">>
    /\ ret.res = ValueError
    /\ ret.id \in DOMAIN activities
    /\ \E i \in 1..Len(completions) :
          completions[i].activity_id = ret.id /\ completions[i].date = ret.date

\* C11: a mark with a valid status for an activity_id that references no
\* Activity ends in an error outcome, never a normal return, and no
\* Completion refers to that id.
C11_UnknownActivity ==
    /\ ret.op = "mark"
    /\ InList(Lower(ret.status), COMPLETION_STATUSES)
    /\ ret.id \notin DOMAIN activities
    => /\ ~ret.res.ok
       /\ \A i \in 1..Len(completions) : completions[i].activity_id # ret.id

\* what mark does for an unknown activity: it returns None, a normal
\* return, and adds no Completion
UnknownActivityReturnsNone ==
    [][/\ ret'.op = "mark"
       /\ InList(Lower(ret'.status), COMPLETION_STATUSES)
       /\ ret'.id \notin DOMAIN activities
       => /\ ret'.res = Ok(None)
          /\ completions' = completions]_vars

(***************************************************************************)
(* The completion timestamp: marks of one activity for today and yesterday *)
(* with every valid status, while the clock moves on within the day and to *)
(* the next day.                                                           *)
(***************************************************************************)
StampStatuses ==
    {S_done, S_missed, S_partial, <<"R","e","s","c","h","e","d","u","l","e","d">>}

StampInit ==
    /\ activities = TwoActivities([date |-> 0, time |-> 450])
    /\ born = [id \in {1, 2} |-> [date |-> 0, time |-> 450]]
    /\ completions = <<>>
    /\ lastMark = <<>>
    /\ lastDone = <<>>
    /\ sessions = <<>>
    /\ ret = [op |-> "init"]
    /\ now = [date |-> MaxTicks - 1, time |-> 450]

StampNext ==
    \/ \E status \in StampStatuses, d \in {None, Some(now.date - 1)} :
            Mark(1, status, d, None)
    \/ TickTime
    \/ TickDay(MaxTicks)

SpecStamp == StampInit /\ [][StampNext]_vars

\* C12: the completion timestamp of a pair is absent iff the pair was never
\* marked done, and otherwise is the clock of the last mark of the pair
\* with status done: a done mark sets it to the time of that mark, a mark
\* with missed, partial or rescheduled leaves it as it was.
C12_CompletedAt ==
    /\ \A i \in 1..Len(completions) :
          LET key == <<completions[i].activity_id, completions[i].date>>
          IN  completions[i].completed_at =
                  IF key \in DOMAIN lastDone THEN Some(lastDone[key]) ELSE None
    /\ \A key \in DOMAIN lastDone :
          \E i \in 1..Len(completions) :
              key = <<completions[i].activity_id, completions[i].date>>
    /\ ret.op = "mark" /\ ret.res.ok /\ ret.res.val # None
       /\ Get(ret.res.val).status = S_done
       => Get(ret.res.val).completed_at = Some(now)

\* a pair marked done in the morning and partial on a later day keeps the
\* morning's timestamp
C12_Witness ==
    /\ ret.op = "mark" /\ ret.res.ok /\ ret.res.val # None
    /\ Get(ret.res.val).status = S_partial
    /\ Get(ret.res.val).completed_at # None
    /\ Get(Get(ret.res.val).completed_at).date < now.date
    /\ \E i \in 1..Len(completions) :
          /\ completions[i].completed_at = None
          /\ completions[i].status = S_rescheduled

(***************************************************************************)
(* Range statistics: every store that marks of the listed pairs leave, and *)
(* get_stats over the ranges around them.                                  *)
(***************************************************************************)
\* a status to mark a pair with, or None to leave the pair unmarked
OptStatuses ==
    {None} \cup {Some(st) : st \in {S_done, S_missed, S_partial, S_rescheduled}}

RECURSIVE MarkAll(_, _, _, _, _)
\* the completions after mark(keys[i], choice[i]) for each marked i in turn
MarkAll(acts, comps, clock, keys, choice) ==
    IF keys = <<>> THEN comps
    ELSE LET next == IF choice[1] = None THEN comps
                     ELSE mark(acts, comps, clock, keys[1][1], Get(choice[1]),
                               Some(keys[1][2]), None).comps
         IN  MarkAll(acts, next, clock, Tail(keys), Tail(choice))

StatsKeys == << <<1, 2>>, <<1, 3>>, <<2, 3>>, <<1, 5>> >>

StatsInit ==
    /\ activities = TwoActivities([date |-> 0, time |-> 450])
    /\ born = [id \in {1, 2} |-> [date |-> 0, time |-> 450]]
    /\ now = [date |-> 6, time |-> 450]
    /\ \E choice \in [1..Len(StatsKeys) -> OptStatuses] :
          completions = MarkAll(activities, <<>>, now, StatsKeys, choice)
    /\ lastMark = <<>>
    /\ lastDone = <<>>
    /\ sessions = <<>>
    /\ ret \in [op : {"call"}, start_date : {0, 2, 3, 4}, end_date : {1, 3, 5}]

StatsNext ==
    /\ ret.op = "call"
    /\ GetStats(ret.start_date, ret.end_date)

SpecStats == StatsInit /\ [][StatsNext]_vars

\* the completions dated within the range of the last call
InRange ==
    {i \in 1..Len(completions) :
        ret.start_date <= completions[i].date /\ completions[i].date <= ret.end_date}

\* C13: get_stats returns total = the number of completions dated within
\* [start_date, end_date], status counts that add up to total, and
\* completion_rate = (done + 0.5 x partial) / total x 100 to the nearest
\* tenth, within [0, 100], and 0.0 when total is 0; total=4, done=2,
\* partial=2 gives 75.0.
C13_GetStats ==
    ret.op = "get_stats" =>
        LET r == ret.res
        IN  /\ r.total = Cardinality(InRange)
            /\ r.done = Cardinality({i \in InRange : completions[i].status = S_done})
            /\ r.partial =
                  Cardinality({i \in InRange : completions[i].status = S_partial})
            /\ r.done + r.missed + r.partial + r.rescheduled = r.total
            /\ 0 <= r.completion_rate /\ r.completion_rate <= 1000
            /\ r.total = 0 => r.completion_rate = 0
            \* |rate - exact| <= 0.05, in units of 1 / (10 * total) percent
            /\ r.total > 0 =>
                  LET exact == (2 * r.done + r.partial) * 500
                      shown == r.completion_rate * r.total
                  IN  /\ 2 * (shown - exact) <= r.total
                      /\ 2 * (exact - shown) <= r.total
            /\ r.total = 4 /\ r.done = 2 /\ r.partial = 2 =>
                  r.completion_rate = 750

\* the scenario: four completions in range, two done and two partial
C13_Witness ==
    /\ ret.op = "get_stats"
    /\ ret.res = [total |-> 4, done |-> 2, missed |-> 0, partial |-> 2,
                  rescheduled |-> 0, completion_rate |-> 750]

\* a range that leaves out some of the stored completions, with a rate
\* that is not a whole percent
C13_WitnessPartOfStore ==
    /\ ret.op = "get_stats"
    /\ ret.res.total = 3 /\ Len(completions) = 4
    /\ ret.res.completion_rate = 167

(***************************************************************************)
(* Weekly analytics: a Health and a Work activity, every store that marks  *)
(* of the listed pairs leave (five in the week of today, Wednesday         *)
(* 2025-01-01, one in the week before), and the statistics, insights and   *)
(* week comparison asked for today, for the Wednesday before and for the   *)
(* Sunday of the week after.                                               *)
(***************************************************************************)
AnalyticsActivities(clock) ==
    create(create(<<>>, clock, LedgerCreateInput).acts, clock,
           [LedgerCreateInput EXCEPT !.category = C_Work]).acts

AnalyticsKeys ==
    << <<1, 7>>, <<2, 7>>, <<1, 8>>, <<2, 8>>, <<1, 9>>, <<1, 1>> >>

AnalyticsInit ==
    /\ activities = AnalyticsActivities([date |-> 0, time |-> 450])
    /\ born = [id \in {1, 2} |-> [date |-> 0, time |-> 450]]
    /\ now = [date |-> 9, time |-> 450]
    /\ \E choice \in [1..Len(AnalyticsKeys) -> OptStatuses] :
          completions = MarkAll(activities, <<>>, now, AnalyticsKeys, choice)
    /\ lastMark = <<>>
    /\ lastDone = <<>>
    /\ sessions = <<>>
    /\ ret \in [op : {"call"}, fn : {"calculate_stats", "compare_weeks"},
                date : {None, Some(2), Some(20)}]

AnalyticsNext ==
    \/ ret.op = "call" /\ ret.fn = "calculate_stats" /\ CalculateStats(ret.date)
    \/ ret.op = "call" /\ ret.fn = "compare_weeks" /\ CompareWeeks(ret.date)
    \/ GetInsights

SpecAnalytics == AnalyticsInit /\ [][AnalyticsNext]_vars

\* the completions of the week window of stats
InWeek(stats) ==
    SelectSeq(completions, LAMBDA c : /\ stats.week_start <= c.date
                                      /\ c.date <= stats.week_end)

\* C14: when the week window of the reference date holds no completion,
\* whatever the store holds elsewhere, calculate_stats returns total 0,
\* zero counts, rate 0.0, empty by_category and by_day and no best or
\* worst day, and get_insights on that result returns the empty list.
C14_EmptyWeek ==
    /\ ret.op = "calculate_stats" /\ InWeek(ret.res) = <<>> =>
          /\ ret.res.total = 0 /\ ret.res.done = 0 /\ ret.res.missed = 0
          /\ ret.res.partial = 0 /\ ret.res.rescheduled = 0
          /\ ret.res.completion_rate = 0
          /\ ret.res.by_category = <<>> /\ ret.res.by_day = <<>>
          /\ ret.res.best_day = None /\ ret.res.worst_day = None
    /\ ret.op = "get_insights" /\ InWeek(ret.stats) = <<>> => ret.res = <<>>

\* insights asked for a week without completions while the store holds
\* completions of other weeks
C14_Witness ==
    /\ ret.op = "get_insights"
    /\ ret.stats.week_start = 14
    /\ InWeek(ret.stats) = <<>>
    /\ Len(completions) = 6
    /\ ret.res = <<>>

\* twice the credit of a group of completions: 1 per done, 0.5 per partial
Credit2(rows) ==
    2 * CountStatus(rows, S_done) + CountStatus(rows, S_partial)

\* the groups calculate_stats reports: by_category holds one item per
\* category that owns a completion of the week and by_day one per day name
\* that has one, each with the group's total and with its rate = credit /
\* total x 100 to the nearest tenth.  entry.done is compared by Reported.
GroupsReported(stats, Reported(_, _)) ==
    LET week == InWeek(stats)
        InCat(c) == SelectSeq(week,
                        LAMBDA r : activities[r.activity_id].category = c)
        OnDay(d) == SelectSeq(week,
                        LAMBDA r : DayNames[Weekday(r.date) + 1] = d)
        Fits(entry, rows) ==
            /\ entry.total = Len(rows)
            /\ Reported(entry.done, Credit2(rows))
            /\ 2 * (entry.rate * Len(rows) - Credit2(rows) * 500) <= Len(rows)
            /\ 2 * (Credit2(rows) * 500 - entry.rate * Len(rows)) <= Len(rows)
    IN  /\ {stats.by_category[k][1] : k \in 1..Len(stats.by_category)}
              = {activities[week[i].activity_id].category : i \in 1..Len(week)}
        /\ \A k \in 1..Len(stats.by_category) :
              Fits(stats.by_category[k][2], InCat(stats.by_category[k][1]))
        /\ {stats.by_day[k][1] : k \in 1..Len(stats.by_day)}
              = {DayNames[Weekday(week[i].date) + 1] : i \in 1..Len(week)}
        /\ \A k \in 1..Len(stats.by_day) :
              Fits(stats.by_day[k][2], OnDay(stats.by_day[k][1]))

\* C15: for every category c that owns a completion in the week window,
\* by_category[c].total is the number of those completions, .done is
\* (number done) + 0.5 x (number partial) and .rate is done / total x 100
\* to one decimal; by_day[d] follows the same credit rule per day name.
C15_GroupCredit ==
    ret.op = "calculate_stats" =>
        GroupsReported(ret.res, LAMBDA done, credit2 : 2 * done = credit2)

\* what calculate_stats does report: totals and rates as stated, and done
\* = the credit cut down to a whole number by int()
GroupCreditTruncated ==
    ret.op = "calculate_stats" =>
        GroupsReported(ret.res, LAMBDA done, credit2 : done = credit2 \div 2)

\* best_day and worst_day of stats are picked as the claim's first half
\* says: best_day is a day of the highest rate, or None when that rate is
\* 0 or no day has completions; worst_day is a day of the lowest rate, or
\* None when no day has completions
BestAndWorstPicked(stats) ==
    LET by_day == stats.by_day
        rates == {by_day[k][2].rate : k \in 1..Len(by_day)}
        HasRate(day, rate) ==
            \E k \in 1..Len(by_day) :
                by_day[k][1] = day /\ by_day[k][2].rate = rate
    IN  IF by_day = <<>>
        THEN stats.best_day = None /\ stats.worst_day = None
        ELSE LET high == CHOOSE r \in rates : \A q \in rates : q <= r
                 low == CHOOSE r \in rates : \A q \in rates : r <= q
             IN  /\ IF high = 0 THEN stats.best_day = None
                    ELSE /\ stats.best_day # None
                         /\ HasRate(Get(stats.best_day), high)
                 /\ stats.worst_day # None
                 /\ HasRate(Get(stats.worst_day), low)

\* C16 as stated: best_day is the day with the highest rate among days
\* with completions (None if that rate is 0), worst_day the day with the
\* lowest rate among them (None if there is none), and in every week where
\* exactly one day has completions best_day = worst_day.
C16_BestWorstDay ==
    ret.op = "calculate_stats" =>
        /\ BestAndWorstPicked(ret.res)
        /\ Len(ret.res.by_day) = 1 => ret.res.best_day = ret.res.worst_day

\* C16 amended: best_day and worst_day are picked as stated; in a week
\* where exactly one day has completions worst_day is that day, and
\* best_day = worst_day iff the day's rate is above 0 (at rate 0 best_day
\* is None).
C16_BestWorstDayAmended ==
    ret.op = "calculate_stats" =>
        /\ BestAndWorstPicked(ret.res)
        /\ Len(ret.res.by_day) = 1 =>
              /\ ret.res.worst_day = Some(ret.res.by_day[1][1])
              /\ ret.res.best_day =
                    IF ret.res.by_day[1][2].rate > 0
                    THEN ret.res.worst_day ELSE None

\* a week whose only day with completions has two of them, one done and
\* one missed: it is both the best and the worst day
C16_Witness ==
    /\ ret.op = "calculate_stats"
    /\ Len(ret.res.by_day) = 1
    /\ ret.res.by_day[1][2] = [done |-> 1, total |-> 2, rate |-> 500]
    /\ ret.res.best_day = Some(DayNames[1])
    /\ ret.res.worst_day = Some(DayNames[1])

\* a week of three days with different rates
C16_WitnessThreeDays ==
    /\ ret.op = "calculate_stats"
    /\ Len(ret.res.by_day) = 3
    /\ ret.res.best_day = Some(DayNames[2])
    /\ ret.res.worst_day = Some(DayNames[1])
    /\ ret.res.by_day[3][2].rate = 500

\* the place of a message's rule in the fixed order of get_insights
RuleOrder(rule) ==
    IF rule \in {"excellent", "good", "improve", "challenge"} THEN 1
    ELSE IF rule = "best_category" THEN 2
    ELSE IF rule = "worst_category" THEN 3
    ELSE IF rule = "best_day" THEN 4
    ELSE 5

\* C17: the list get_insights returns follows the fixed order overall
\* tier, best category, worst category, best day, missed-exceeds-done with
\* each at most once; there is one overall message iff total > 0, chosen
\* by rate >= 80, >= 60, >= 40, else the challenge; best category iff its
\* rate > 0; worst category iff there is more than one category and its
\* rate < 50; best day iff best_day is set; the warning iff missed > done.
C17_Insights ==
    ret.op = "get_insights" =>
        LET stats == ret.stats
            res == ret.res
            rules == {res[i].rule : i \in 1..Len(res)}
            rate == stats.completion_rate
            cats == stats.by_category
            rates == {cats[k][2].rate : k \in 1..Len(cats)}
        IN  /\ \A i, j \in 1..Len(res) :
                  i < j => RuleOrder(res[i].rule) < RuleOrder(res[j].rule)
            /\ (\E r \in rules : RuleOrder(r) = 1) <=> stats.total > 0
            /\ "excellent" \in rules <=> rate >= 800
            /\ "good" \in rules <=> rate >= 600 /\ rate < 800
            /\ "improve" \in rules <=> rate >= 400 /\ rate < 600
            /\ "challenge" \in rules <=> rate < 400 /\ stats.total > 0
            /\ "best_category" \in rules <=> \E r \in rates : r > 0
            /\ "worst_category" \in rules <=>
                  Len(cats) > 1 /\ \E r \in rates : r < 500
            /\ "best_day" \in rules <=> stats.best_day # None
            /\ "missed_exceeds_done" \in rules <=> stats.missed > stats.done

\* all five rules fire: one done Health completion and two missed Work ones
C17_Witness ==
    /\ ret.op = "get_insights"
    /\ [i \in 1..Len(ret.res) |-> ret.res[i].rule] =
          <<"challenge", "best_category", "worst_category", "best_day",
            "missed_exceeds_done">>
    /\ ret.res[2].about = Some(C_Health)
    /\ ret.res[3].about = Some(C_Work)

\* a rate of exactly 80.0 earns the top message
C17_WitnessExactly80 ==
    /\ ret.op = "get_insights"
    /\ ret.stats.completion_rate = 800
    /\ ret.res[1].rule = "excellent"

\* C18: compare_weeks(d) returns the statistics of the week of d and of
\* the week of d - 7 days, two adjacent windows of seven days each
\* (previous.week_end + 1 = current.week_start), rate_change = the current
\* rate minus the previous rate, and improved iff rate_change > 0; when
\* neither week has completions rate_change is 0 and improved is false.
C18_CompareWeeks ==
    ret.op = "compare_weeks" =>
        LET d == IF ret.date = None THEN now.date ELSE Get(ret.date)
            cur == ret.res.current
            prev == ret.res.previous
        IN  /\ cur = calculate_stats(activities, completions, now.date, Some(d))
            /\ prev = calculate_stats(activities, completions, now.date,
                                      Some(d - 7))
            /\ cur.week_start <= d /\ d <= cur.week_end
            /\ cur.week_end = cur.week_start + 6
            /\ prev.week_end = prev.week_start + 6
            /\ prev.week_end + 1 = cur.week_start
            /\ cur.total = Len(InWeek(cur)) /\ prev.total = Len(InWeek(prev))
            /\ ret.res.rate_change = cur.completion_rate - prev.completion_rate
            /\ ret.res.improved <=> ret.res.rate_change > 0
            /\ cur.total = 0 /\ prev.total = 0 =>
                  ret.res.rate_change = 0 /\ ~ret.res.improved

\* this week at 66.7 against 100.0 the week before: a change of -33.3
C18_Witness ==
    /\ ret.op = "compare_weeks"
    /\ ret.date = None
    /\ ret.res.current.total = 3
    /\ ret.res.previous.total = 1
    /\ ret.res.rate_change = 0 - 333
    /\ ~ret.res.improved

\* a Sunday compared with the week before it, which holds the completions
C18_WitnessSunday ==
    /\ ret.op = "compare_weeks"
    /\ ret.date = Some(20)
    /\ ret.res.current.total = 0
    /\ ret.res.previous.total = 5
    /\ ret.res.previous.week_end = 13

\* two weeks without completions while the store holds some
C18_WitnessBothEmpty ==
    /\ ret.op = "compare_weeks"
    /\ ret.res.current.total = 0 /\ ret.res.previous.total = 0
    /\ Len(completions) = 5

(***************************************************************************)
(* Suggestions: a first activity at 07:45 or 06:00 (Health or Work,        *)
(* outdoor or not) with or without a second one at 08:15, both daily; the  *)
(* first one's completions of two Wednesdays and a Tuesday; the clock at   *)
(* 07:30 or 20:30 of Wednesday 2025-01-01; and suggestions asked for       *)
(* today and for tomorrow under each weather snapshot.                     *)
(***************************************************************************)
SuggestCreateInputs ==
    [title : {"Run"}, start_time : {"07:45", "06:00"},
     category : {C_Health, C_Work}, description : {None},
     duration : {Some(30)}, recurrence : {R_daily}, custom_days : {None},
     location : {Some("Park")}, prep_time : {15}, is_outdoor : BOOLEAN]

SyncCreateInput ==
    [title |-> "Sync", start_time |-> "08:15", category |-> C_Work,
     description |-> None, duration |-> None, recurrence |-> R_daily,
     custom_days |-> None, location |-> None, prep_time |-> 15,
     is_outdoor |-> FALSE]

\* the snapshots the weather service may answer with, or None when it is
\* unavailable
Weathers ==
    {None,
     Some([temperature |-> 360, description |-> <<"l","i","g","h","t"," ","r","a","i","n">>,
          humidity |-> 85, wind_speed |-> 50, units |-> "metric"]),
     Some([temperature |-> 320, description |-> <<"c","l","e","a","r"," ","s","k","y">>,
          humidity |-> 50, wind_speed |-> 200, units |-> "metric"]),
     Some([temperature |-> 0 - 50, description |-> <<"S","n","o","w">>,
          humidity |-> 90, wind_speed |-> 0, units |-> "metric"]),
     Some([temperature |-> 50, description |-> <<"t","h","u","n","d","e","r","s","t","o","r","m">>,
          humidity |-> 40, wind_speed |-> 150, units |-> "metric"]),
     Some([temperature |-> 200, description |-> <<"c","l","e","a","r"," ","s","k","y">>,
          humidity |-> 85, wind_speed |-> 0, units |-> "metric"]),
     Some([temperature |-> 200, description |-> <<"m","i","s","t">>,
          humidity |-> 80, wind_speed |-> 0, units |-> "metric"]),
     Some([temperature |-> 960, description |-> <<"D","r","i","z","z","l","e">>,
          humidity |-> 30, wind_speed |-> 350, units |-> "imperial"]),
     Some([temperature |-> 400, description |-> <<"c","l","e","a","r"," ","s","k","y">>,
          humidity |-> 81, wind_speed |-> 100, units |-> "imperial"])}

SuggestKeys == << <<1, 2>>, <<1, 8>>, <<1, 9>> >>

SuggestInit ==
    /\ \E in \in SuggestCreateInputs, clock \in {[date |-> 0, time |-> 450]} :
          \E first \in {create(<<>>, clock, in).acts} :
              activities \in {first, create(first, clock, SyncCreateInput).acts}
    /\ born = [id \in DOMAIN activities |-> [date |-> 0, time |-> 450]]
    /\ now \in [date : {9}, time : ClockTimes]
    /\ \E choice \in [1..Len(SuggestKeys) -> {None, Some(S_done), Some(S_missed)}] :
          completions = MarkAll(activities, <<>>, now, SuggestKeys, choice)
    /\ lastMark = <<>>
    /\ lastDone = <<>>
    /\ sessions = <<>>
    /\ ret \in [op : {"call"}, weather : Weathers,
                date : {None, Some(9), Some(10)}]

SuggestNext ==
    /\ ret.op = "call"
    /\ GetAllSuggestions(ret.weather, ret.date)

SpecSuggest == SuggestInit /\ [][SuggestNext]_vars

\* the date the last get_all_suggestions call was about
AskedDate == IF ret.date = None THEN now.date ELSE Get(ret.date)

\* the outputs of the four rule groups for the last call, joined in the
\* order weather, time, pattern, activity-specific
GroupOutputs ==
    _get_weather_suggestions(activities, now, ret.weather, AskedDate)
    \o _get_time_suggestions(activities, now, AskedDate)
    \o _get_pattern_suggestions(activities, completions, AskedDate)
    \o _get_activity_suggestions(activities, ret.weather, AskedDate).val

\* C19: the list get_all_suggestions returns is a permutation of the four
\* groups' outputs joined in the order weather, time, pattern,
\* activity-specific, with every high item before every medium one and
\* every medium before every low one, and items of equal priority in the
\* order they have in the joined list.
C19_StableByPriority ==
    ret.op = "get_all_suggestions" /\ ret.res.ok =>
        LET res == ret.res.val
            Rank(x) == IF x.priority = "high" THEN 0
                       ELSE IF x.priority = "medium" THEN 1 ELSE 2
            Of(seq, pr) == SelectSeq(seq, LAMBDA x : x.priority = pr)
        IN  /\ Len(res) = Len(GroupOutputs)
            /\ \A i, j \in 1..Len(res) : i < j => Rank(res[i]) <= Rank(res[j])
            /\ \A pr \in {"high", "medium", "low"} :
                  Of(res, pr) = Of(GroupOutputs, pr)
            /\ \A i \in 1..Len(res) : res[i].priority \in {"high", "medium", "low"}

\* 36 degrees C with light rain: the extreme-heat and the umbrella
\* suggestion lead the list in that order, and the reminder of the time
\* group has moved ahead of the weather group's relocation suggestion
C19_Witness ==
    /\ ret.op = "get_all_suggestions" /\ ret.res.ok
    /\ Len(ret.res.val) >= 5
    /\ ret.res.val[1].message = <<"Extreme heat", 360, "metric">>
    /\ ret.res.val[2].message = <<"Rain expected">>
    /\ ret.res.val[3].category = "reminder"
    /\ ret.res.val[4].message = <<"Consider moving indoors", "Run">>
    /\ ret.res.val[Len(ret.res.val)].priority = "low"

\* C20: for a reference date other than today get_all_suggestions emits
\* nothing derived from the weather snapshot: no temperature, rain, snow,
\* storm, wind or relocation message and no humidity warning.
C20_WeatherOnlyToday ==
    ret.op = "get_all_suggestions" /\ ret.res.ok /\ AskedDate # now.date =>
        \A i \in 1..Len(ret.res.val) :
            ret.res.val[i].category \notin {"weather", "health"}

\* what the code keeps to today: the weather group.  The humidity warning
\* is emitted for any date on which an outdoor Health activity is due.
WeatherGroupOnlyToday ==
    ret.op = "get_all_suggestions" /\ ret.res.ok /\ AskedDate # now.date =>
        /\ \A i \in 1..Len(ret.res.val) : ret.res.val[i].category # "weather"
        /\ (\E i \in 1..Len(ret.res.val) : ret.res.val[i].category = "health")
           <=> /\ ret.weather # None /\ Get(ret.weather).humidity > 80
               /\ \E a \in {activities[id] : id \in DOMAIN activities} :
                     /\ a.category = C_Health /\ a.is_outdoor
                     /\ _is_scheduled_for_date(a, AskedDate)

(***************************************************************************)
(* Tight schedules: two or three daily activities A, B, C with start times *)
(* from morning to 23:30 and durations from none to a whole day, and the   *)
(* suggestions asked for today while the weather service is unavailable.   *)
(***************************************************************************)
TightCreateInputs ==
    [title : {"A"}, start_time : {"07:45", "08:00", "08:15", "23:30"},
     category : {C_Work}, description : {None},
     duration : {None, Some(1), Some(15), Some(16), Some(30), Some(1440)},
     recurrence : {R_daily}, custom_days : {None}, location : {None},
     prep_time : {15}, is_outdoor : {FALSE}]

\* the settings' weather_api_key: not set, empty, set
ApiKeys == {None, Some(""), Some("k")}

\* the provider's answers: a RequestException, or a report
Responses ==
    {None,
     Some([main |-> [temp |-> 360, humidity |-> 85],
           weather |-> [description |-> <<"l","i","g","h","t"," ","r","a","i","n">>],
           wind |-> [speed |-> 50]])}

\* what get_current returns when there is no key or the request failed
Unavailable ==
    {get_current(k, r) : <<k, r>> \in
        {x \in ApiKeys \X Responses : ~TruthyStr(x[1]) \/ x[2] = None}}

TightInit ==
    /\ \E a, b, c \in TightCreateInputs, clock \in {[date |-> 0, time |-> 450]} :
          \E two \in {create(create(<<>>, clock, a).acts, clock,
                             [b EXCEPT !.title = "B"]).acts} :
              activities \in
                  {two, create(two, clock, [c EXCEPT !.title = "C"]).acts}
    /\ born = [id \in DOMAIN activities |-> [date |-> 0, time |-> 450]]
    /\ now = [date |-> 9, time |-> 1230]
    /\ completions = <<>>
    /\ lastMark = <<>>
    /\ lastDone = <<>>
    /\ sessions = <<>>
    /\ ret \in [op : {"call"}, weather : Unavailable, date : {None}]

TightNext ==
    /\ ret.op = "call"
    /\ GetAllSuggestions(ret.weather, ret.date)

SpecTight == TightInit /\ [][TightNext]_vars

\* the activities due on the asked date, in start-time order
DueAsked == get_for_date(activities, AskedDate)

\* the gap in minutes between the end of the i-th due activity and the
\* start of the next one
GapAfter(i) ==
    DueAsked[i + 1].start_time
        - (DueAsked[i].start_time + Get(DueAsked[i].duration))

\* the tight-schedule warnings of the result are, in order, one for each
\* adjacent pair whose first activity has a duration and whose gap is
\* within 0..14 minutes
TightWarningsAsStated ==
    LET pairs == SelectSeq([i \in 1..(Len(DueAsked) - 1) |-> i],
                     LAMBDA i : /\ DueAsked[i].duration # None
                                /\ 0 <= GapAfter(i) /\ GapAfter(i) <= 14)
        tight == SelectSeq(ret.res.val,
                     LAMBDA x : x.message[1] = "Tight schedule")
    IN  tight = [k \in 1..Len(pairs) |->
                    Suggestion(<<"Tight schedule", GapAfter(pairs[k]),
                                 DueAsked[pairs[k]].title,
                                 DueAsked[pairs[k] + 1].title>>,
                               "low", "time", None)]

\* C21: for every list of due activities the computation ends without an
\* error, also when an activity's end falls at or after midnight, and
\* emits exactly one tight-schedule warning for each adjacent pair (a, b),
\* a with a duration, iff 0 <= b.start - (a.start + a.duration) <= 14.
C21_TightSchedule ==
    ret.op = "get_all_suggestions" =>
        ret.res.ok /\ TightWarningsAsStated

\* what the code does: the warnings are as stated unless some activity
\* that is not the last of the day ends at or after 24:00, and then the
\* call ends in the ValueError of time(24, ...)
TightWithinTheDay ==
    ret.op = "get_all_suggestions" =>
        IF \E i \in 1..(Len(DueAsked) - 1) :
              /\ DueAsked[i].duration # None
              /\ DueAsked[i].start_time + Get(DueAsked[i].duration) >= 1440
        THEN ret.res = ValueError
        ELSE ret.res.ok /\ TightWarningsAsStated

\* the result holds, in priority order, what the time, pattern and
\* activity rules give without a snapshot, and nothing about the weather
WithoutWeather ==
    LET res == ret.res.val
        joined == _get_time_suggestions(activities, now, AskedDate)
                  \o _get_pattern_suggestions(activities, completions, AskedDate)
                  \o _get_activity_suggestions(activities, None, AskedDate).val
        Of(seq, pr) == SelectSeq(seq, LAMBDA x : x.priority = pr)
    IN  /\ Len(res) = Len(joined)
        /\ \A pr \in {"high", "medium", "low"} : Of(res, pr) = Of(joined, pr)
        /\ \A i \in 1..Len(res) : res[i].category \notin {"weather", "health"}
        /\ TightWarningsAsStated

\* C27: when the weather provider is unavailable (no API key, request
\* failure or timeout) get_current returns None without raising, and
\* get_all_suggestions for today returns the time, pattern and
\* tight-schedule suggestions, no weather or humidity suggestion, and no
\* error.
C27_FailSoft ==
    /\ Unavailable = {None}
    /\ (ret.op = "get_all_suggestions" /\ ret.weather \in Unavailable
           /\ AskedDate = now.date) =>
          ret.res.ok /\ WithoutWeather

\* what does hold: get_current answers None, and a call that returns gives
\* the list as stated; the call raises exactly when claim C21's end time
\* does
FailSoftWhenReturned ==
    /\ Unavailable = {None}
    /\ (ret.op = "get_all_suggestions" /\ ret.weather \in Unavailable
           /\ AskedDate = now.date) =>
          /\ ret.res.ok => WithoutWeather
          /\ ret.res.ok <=>
                _get_activity_suggestions(activities, None, AskedDate).ok

(***************************************************************************)
(* Ownership: activities are created, edited, toggled, marked and deleted  *)
(* in any order on New Year's Day.                                         *)
(***************************************************************************)
OwnInit ==
    /\ EmptyStore
    /\ now = [date |-> 9, time |-> 450]

OwnNext ==
    \/ Cardinality(DOMAIN activities) < 2 /\ Create(LedgerCreateInput)
    \/ \E id \in DOMAIN activities : Update(id, EditEverything)
    \/ \E id \in DOMAIN activities : Toggle(id)
    \/ \E id \in 1..3, d \in {None, Some(now.date - 1)} :
          Mark(id, S_done, d, None)
    \/ \E id \in 1..3 : Delete(id)

SpecOwn == OwnInit /\ [][OwnNext]_vars

\* every Completion's activity_id is the id of a stored Activity
Owned ==
    \A i \in 1..Len(completions) :
        completions[i].activity_id \in DOMAIN activities

\* a delete that returned True removed the activity; the status on any
\* date, the history and the streak of its id are None, empty and 0; the
\* rows of the other activities are the ones that were there, in order
DeleteCascades ==
    (ret'.op = "delete" /\ ret'.res) =>
        /\ ret'.id \in DOMAIN activities
        /\ ret'.id \notin DOMAIN activities'
        /\ \A d \in {None} \cup {Some(x) : x \in Days} :
              get_completion_status(completions', now', ret'.id, d) = None
        /\ get_for_activity(completions', ret'.id, 30) = <<>>
        /\ get_streak(completions', now', ret'.id) = Ok(0)
        /\ completions' =
             SelectSeq(completions, LAMBDA c : c.activity_id # ret'.id)
        /\ \A id \in DOMAIN activities' : activities'[id] = activities[id]

\* C22: in every state reachable by create, update, toggle, mark and delete
\* every Completion's activity_id references an existing Activity; delete(id)
\* removes the activity with all of its Completion records, after which the
\* status, the history and the streak of that id are None, empty and 0, and
\* the completions of the other activities are unchanged.
C22_Ownership == []Owned /\ [][DeleteCascades]_vars

\* a delete took two rows of activity 1 with it and left the row of
\* activity 2
C22_Witness ==
    /\ ret.op = "delete" /\ ret.res /\ ret.id = 1 /\ ret.removed = 2
    /\ Len(completions) = 1
    /\ completions[1].activity_id = 2

(***************************************************************************)
(* Validation: create and update called with good and bad arguments, the   *)
(* empty title, duration 0 and prep_time 0 among them.                     *)
(***************************************************************************)
ValidCreateInputs ==
    [title : {"Run", ""}, start_time : {"08:00"},
     category : {C_Health, <<"f","u","n">>}, description : {None},
     duration : {None, Some(0), Some(1), Some(1440), Some(1441)},
     recurrence : {R_daily, <<"o","f","t","e","n">>},
     custom_days : {None}, location : {None}, prep_time : {0, 15, 181},
     is_outdoor : {FALSE}]

ValidUpdateInputs ==
    {[NoChange EXCEPT !.title = Some("")],
     [NoChange EXCEPT !.title = Some("Jog")],
     [NoChange EXCEPT !.category = Some(<<"f","u","n">>)],
     [NoChange EXCEPT !.category = Some(<<"w","o","r","k">>)],
     [NoChange EXCEPT !.recurrence = Some(<<"o","f","t","e","n">>)],
     [NoChange EXCEPT !.recurrence = Some(<<"W","e","e","k","l","y">>)],
     [NoChange EXCEPT !.duration = Some(0)],
     [NoChange EXCEPT !.duration = Some(0 - 5)],
     [NoChange EXCEPT !.duration = Some(1441)],
     [NoChange EXCEPT !.duration = Some(60)],
     [NoChange EXCEPT !.prep_time = Some(0)],
     [NoChange EXCEPT !.prep_time = Some(0 - 1)],
     [NoChange EXCEPT !.prep_time = Some(181)],
     [NoChange EXCEPT !.prep_time = Some(180)]}

ValidInit ==
    /\ EmptyStore
    /\ now = [date |-> 9, time |-> 450]

ValidNext ==
    \/ \E in \in ValidCreateInputs : activities = <<>> /\ Create(in)
    \/ \E id \in DOMAIN activities, in \in ValidUpdateInputs : Update(id, in)

SpecValid == ValidInit /\ [][ValidNext]_vars

\* the elements of a tuple
Range(seq) == {seq[i] : i \in DOMAIN seq}

\* the invariants of a stored Activity
ValidActivity(a) ==
    /\ a.title # ""
    /\ a.category \in Range(CATEGORIES)
    /\ a.recurrence \in Range(RECURRENCE_OPTIONS)
    /\ a.duration = None \/ Get(a.duration) \in 1..1440
    /\ a.prep_time \in 0..180

StoredValid == \A id \in DOMAIN activities : ValidActivity(activities[id])

\* the arguments of a create call break one of the invariants
CreateViolates(in) ==
    \/ in.title = ""
    \/ Lower(in.category) \notin {Lower(c) : c \in Range(CATEGORIES)}
    \/ Lower(in.recurrence) \notin Range(RECURRENCE_OPTIONS)
    \/ in.duration # None /\ Get(in.duration) \notin 1..1440
    \/ in.prep_time \notin 0..180

\* a supplied argument of an update call breaks one of the invariants
UpdateViolates(in) ==
    \/ in.title = Some("")
    \/ /\ in.category # None
       /\ Lower(Get(in.category)) \notin {Lower(c) : c \in Range(CATEGORIES)}
    \/ /\ in.recurrence # None
       /\ Lower(Get(in.recurrence)) \notin Range(RECURRENCE_OPTIONS)
    \/ in.duration # None /\ Get(in.duration) \notin 1..1440
    \/ in.prep_time # None /\ Get(in.prep_time) \notin 0..180

\* a call that breaks an invariant fails with the validation error and
\* leaves the table as it was
ViolationFails ==
    /\ (ret'.op = "create" /\ CreateViolates(ret'.in)) =>
          ~ret'.res.ok /\ activities' = activities
    /\ (ret'.op = "update" /\ UpdateViolates(ret'.in)) =>
          ~ret'.res.ok /\ activities' = activities

\* C23: after any sequence of create and update calls, the ones with title
\* '', duration 0 and prep_time 0 included, every stored Activity has a
\* non-empty title, an enumerated category and recurrence, a duration that
\* is absent or within 1..1440 and a prep time within 0..180; a call that
\* violates one of these fails with a validation error and stores nothing.
C23_ValidatedStore == []StoredValid /\ [][ViolationFails]_vars

\* what the code does keep: category, recurrence and prep time are always
\* valid, and a stored duration is absent, 0 or within 1..1440
StoredValidButFalsy ==
    \A id \in DOMAIN activities :
        /\ activities[id].category \in Range(CATEGORIES)
        /\ activities[id].recurrence \in Range(RECURRENCE_OPTIONS)
        /\ \/ activities[id].duration = None
           \/ Get(activities[id].duration) \in 0..1440
        /\ activities[id].prep_time \in 0..180

(***************************************************************************)
(* The HTTP boundary: one stored activity with a done mark for today, on   *)
(* New Year's Day or the day after, and one request to an endpoint of the  *)
(* activities or the analytics router, well-formed or not.                 *)
(***************************************************************************)
HttpCreateInput ==
    [title |-> "Run", start_time |-> "08:00", category |-> C_Health,
     description |-> Some("slow"), duration |-> Some(45),
     recurrence |-> R_custom,
     custom_days |-> Some(<<"w","e","d",",","t","h","u">>),
     location |-> Some("Park"), prep_time |-> 15, is_outdoor |-> TRUE]

\* the JSON bodies of the PUT requests: a field is left out, null (None)
\* or given
UpdateBodies ==
    {<<>>,
     [description |-> None], [description |-> Some("")],
     [location |-> None], [location |-> Some("")],
     [duration |-> None], [duration |-> Some(0)], [duration |-> Some(1441)],
     [duration |-> Some(60)],
     [title |-> None], [title |-> Some("")], [title |-> Some("Jog")],
     [category |-> None], [category |-> Some(<<"w","o","r","k">>)],
     [category |-> Some(<<"f","u","n">>)],
     [recurrence |-> Some(<<"D","a","i","l","y">>)],
     [recurrence |-> Some(<<"o","f","t","e","n">>)],
     [start_time |-> Some("18:30")], [start_time |-> Some("soon")],
     [prep_time |-> None], [prep_time |-> Some(0)], [prep_time |-> Some(181)],
     [is_outdoor |-> None], [is_outdoor |-> Some(FALSE)],
     [title |-> Some("Jog"), description |-> None, location |-> Some("Gym"),
      duration |-> None, prep_time |-> Some(30)]}

CreateBodies ==
    [title : {"Walk"}, start_time : {"09:00", "soon"},
     category : {C_Other, <<"f","u","n">>}, description : {None},
     duration : {None, Some(0), Some(1441)},
     recurrence : {R_once, <<"o","f","t","e","n">>}, location : {None},
     prep_time : {15, 181}, is_outdoor : {FALSE}]

MarkBodies ==
    [status : {S_missed, <<"s","k","i","p","p","e","d">>}, notes : {None},
     date : {None, Some("yesterday"), Some("someday")}]

ListQueries ==
    [date_str : {None, Some("tomorrow"), Some("someday")},
     category : {None, Some(<<"h","e","a","l","t","h">>), Some(<<"f","u","n">>)},
     week : BOOLEAN, all : BOOLEAN]

Requests ==
    [route : {"GET /activities"}, q : ListQueries]
    \cup [route : {"GET /activities/{id}", "DELETE /activities/{id}",
                   "POST /activities/{id}/toggle",
                   "GET /activities/{id}/history"}, id : 1..2]
    \cup [route : {"POST /activities"}, data : CreateBodies]
    \cup [route : {"PUT /activities/{id}"}, id : 1..2, body : UpdateBodies]
    \cup [route : {"POST /activities/{id}/mark"}, id : 1..2, data : MarkBodies]
    \cup [route : {"GET /analytics", "GET /analytics/compare"},
          date_str : {None, Some("yesterday"), Some("someday")}]

HttpInit ==
    /\ now \in [date : {9, 10}, time : {450}]
    /\ activities = create(<<>>, [date |-> 0, time |-> 450], HttpCreateInput).acts
    /\ born = [id \in {1} |-> [date |-> 0, time |-> 450]]
    /\ completions \in
          {<<>>, mark(activities, <<>>, now, 1, S_done, None, None).comps}
    /\ lastMark = [k \in {<<1, now.date>>} \cap
                         {<<completions[i].activity_id, completions[i].date>> :
                             i \in 1..Len(completions)} |-> S_done]
    /\ lastDone = [k \in DOMAIN lastMark |-> now]
    /\ sessions = <<>>
    /\ ret \in [op : {"call"}, req : Requests]

HttpNext ==
    /\ ret.op = "call"
    /\ Request(ret.req)

SpecHttp == HttpInit /\ [][HttpNext]_vars

\* a step that answered a PUT request with 200
Updated ==
    /\ ret'.op = "request" /\ ret'.req.route = "PUT /activities/{id}"
    /\ ret'.status = 200

\* a value of field f that is null or empty: None, '' or the empty text
EmptyValue(f, v) ==
    \/ v = None
    \/ f \in {"title", "start_time", "description", "location"} /\ v = Some("")
    \/ f \in {"category", "recurrence"} /\ v = Some(<<>>)

\* the value the stored field takes from a supplied value
StoredAs(f, v) ==
    CASE f = "category" -> validate_category(Get(v)).val
      [] f = "recurrence" -> validate_recurrence(Get(v)).val
      [] f = "start_time" -> parse_time(Get(v)).val
      [] f \in {"description", "location", "duration"} -> v
      [] OTHER -> Get(v)

\* update never touches these
UpdateKeeps(a0, a1) ==
    /\ a1.id = a0.id /\ a1.created_at = a0.created_at
    /\ a1.is_active = a0.is_active /\ a1.custom_days = a0.custom_days

\* C24: update changes exactly the supplied fields: a field passed as
\* absent keeps its value; id, creation timestamp, active flag and
\* custom-days are never changed; an explicit null or empty value clears a
\* nullable field (description, location, duration) and only a nullable
\* field.
C24_UpdateFrame ==
    [][Updated =>
        LET body == ret'.req.body
            a0 == activities[ret'.req.id]
            a1 == activities'[ret'.req.id]
        IN  /\ UpdateKeeps(a0, a1)
            /\ \A f \in UpdateFields \ DOMAIN body : a1[f] = a0[f]
            /\ \A f \in DOMAIN body :
                  IF EmptyValue(f, body[f])
                  THEN IF f \in {"description", "location", "duration"}
                       THEN EmptyValue(f, a1[f])
                       ELSE a1[f] = a0[f]
                  ELSE a1[f] = StoredAs(f, body[f])]_vars

\* what update does: a null is an absent field; '' is stored in
\* description and location and ignored in title; duration 0 is ignored
UpdateFrameAsCoded ==
    [][Updated =>
        LET body == ret'.req.body
            a0 == activities[ret'.req.id]
            a1 == activities'[ret'.req.id]
        IN  /\ UpdateKeeps(a0, a1)
            /\ \A f \in UpdateFields \ DOMAIN body : a1[f] = a0[f]
            /\ \A f \in DOMAIN body :
                  IF \/ body[f] = None
                     \/ f = "duration" /\ body[f] = Some(0)
                     \/ f = "title" /\ body[f] = Some("")
                  THEN a1[f] = a0[f]
                  ELSE a1[f] = StoredAs(f, body[f])]_vars

\* the request names an activity that is not stored
UnknownId(req) == "id" \in DOMAIN req /\ req.id \notin DOMAIN activities

\* an Optional text that is given and that validate rejects
BadCategory(o) == TruthyText(o) /\ ~validate_category(Get(o)).ok
BadRecurrence(o) == TruthyText(o) /\ ~validate_recurrence(Get(o)).ok
BadTime(o) == TruthyStr(o) /\ ~parse_time(Get(o)).ok
BadDate(o) == TruthyStr(o) /\ ~parse_date(Get(o), now).ok

\* the request carries a value that fails validation: an unknown category,
\* recurrence or status, a duration outside 1..1440, a prep time outside
\* 0..180, a time or a date that does not parse
Invalid(req) ==
    CASE req.route = "GET /activities" ->
            BadCategory(req.q.category) \/ BadDate(req.q.date_str)
      [] req.route = "POST /activities" ->
            \/ BadCategory(Some(req.data.category))
            \/ BadRecurrence(Some(req.data.recurrence))
            \/ BadTime(Some(req.data.start_time))
            \/ /\ req.data.duration # None
               /\ Get(req.data.duration) \notin 1..1440
            \/ req.data.prep_time \notin 0..180
      [] req.route = "PUT /activities/{id}" ->
            LET data == ActivityUpdate(req.body)
            IN  \/ BadCategory(data.category)
                \/ BadRecurrence(data.recurrence)
                \/ BadTime(data.start_time)
                \/ data.duration # None /\ Get(data.duration) \notin 1..1440
                \/ data.prep_time # None /\ Get(data.prep_time) \notin 0..180
      [] req.route = "POST /activities/{id}/mark" ->
            ~validate_status(req.data.status).ok \/ BadDate(req.data.date)
      [] req.route \in {"GET /analytics", "GET /analytics/compare"} ->
            BadDate(req.date_str)
      [] OTHER -> FALSE

TablesKept == activities' = activities /\ completions' = completions

\* C25: a request that names an unknown activity id (get, update, delete,
\* toggle, mark, history) is answered 404 and changes no state; a request
\* that fails validation on an activities or analytics endpoint, the list
\* filters and the analytics date parameter included, is answered 400; no
\* request ends in an unhandled error.
C25_Boundary ==
    [][ret'.op = "request" =>
        /\ UnknownId(ret'.req) => ret'.status = 404 /\ TablesKept
        /\ (~UnknownId(ret'.req) /\ Invalid(ret'.req)) =>
              ret'.status = 400 /\ TablesKept
        /\ ret'.status # 500]_vars

\* what the routers do: 404 for every unknown id; 400 from create, update
\* and mark for what their managers validate (a duration of 0 passes);
\* list_activities, get_analytics, compare_weeks and get_activity_history
\* have no except clause, so a rejected filter or date, a week that holds a
\* month's last day and a streak on the 1st end in an unhandled error
BoundaryAsCoded ==
    [][ret'.op = "request" =>
        LET req == ret'.req
        IN  /\ UnknownId(req) => ret'.status = 404 /\ TablesKept
            /\ (/\ ~UnknownId(req) /\ Invalid(req)
                /\ req.route \in {"POST /activities", "PUT /activities/{id}",
                                  "POST /activities/{id}/mark"}) =>
                  \/ ret'.status = 400 /\ TablesKept
                  \/ /\ ret'.status = 200
                     /\ req.route = "POST /activities"
                     /\ req.data.duration = Some(0)
                  \/ /\ ret'.status = 200
                     /\ req.route = "PUT /activities/{id}"
                     /\ req.body = [duration |-> Some(0)]
            /\ req.route \in {"GET /analytics", "GET /analytics/compare"} =>
                  ret'.status = IF Invalid(req) THEN 500 ELSE 200
            /\ (req.route = "GET /activities" /\ ~req.q.all
                  /\ BadCategory(req.q.category)) => ret'.status = 500
            /\ ret'.status = 500 =>
                  /\ TablesKept
                  /\ req.route \in {"GET /activities", "GET /analytics",
                                    "GET /analytics/compare",
                                    "GET /activities/{id}/history"}]_vars

(***************************************************************************)
(* Two overlapping mark requests for the same activity and date, each with *)
(* its own session.  The completions table has no unique constraint, and a *)
(* SELECT holds no lock once it has returned, so a step sees what is       *)
(* committed when it runs.                                                 *)
(***************************************************************************)
RaceInit ==
    /\ now \in [date : {9, 10}, time : {450}]
    /\ activities = create(<<>>, [date |-> 0, time |-> 450],
                           LedgerCreateInput).acts
    /\ born = [id \in {1} |-> [date |-> 0, time |-> 450]]
    /\ \E first \in {None, Some(S_rescheduled)} :
          /\ completions = IF first = None THEN <<>>
                           ELSE mark(activities, <<>>, now, 1, Get(first),
                                     None, None).comps
          /\ lastMark = IF first = None THEN <<>>
                        ELSE [k \in {<<1, now.date>>} |-> Get(first)]
    /\ lastDone = <<>>
    /\ sessions \in
          [1..2 -> [pc : {"start"}, id : {1, 2},
                    status : {S_done, S_missed, <<"P","a","r","t","i","a","l">>,
                              <<"s","k","i","p","p","e","d">>},
                    date : {None}, existing : {0}, code : {0}]]
    /\ sessions[1].id = sessions[2].id
    /\ ret = [op |-> "init"]

RaceNext == \E p \in 1..2 : MarkRead(p) \/ MarkWrite(p)

SpecRace == RaceInit /\ [][RaceNext]_vars

\* both requests are answered, and both wrote
BothWrote == \A p \in 1..2 : sessions[p].pc = "done" /\ sessions[p].code = 200

\* the rows of the pair the two requests are about
RowsOfPair ==
    SelectSeq(completions, LAMBDA c : /\ c.activity_id = sessions[1].id
                                      /\ c.date = now.date)

\* C29: however the read-existing and insert/commit steps of two mark
\* calls for the same (activity_id, date) interleave, the final state holds
\* exactly one Completion for the pair, with the status of the write that
\* committed last.
C29_LastWriteWins ==
    BothWrote =>
        /\ Len(RowsOfPair) = 1
        /\ RowsOfPair[1].status = lastMark[<<sessions[1].id, now.date>>]

\* what happens: one row with the last status when the pair had a row or
\* one request wrote before the other read; two rows when both read before
\* either wrote, the first of them with the status committed first
RaceAsCoded ==
    BothWrote =>
        IF \A p \in 1..2 : sessions[p].existing = 0
        THEN /\ Len(RowsOfPair) = 2
             /\ RowsOfPair[2].status = lastMark[<<sessions[1].id, now.date>>]
        ELSE /\ Len(RowsOfPair) = 1
             /\ RowsOfPair[1].status = lastMark[<<sessions[1].id, now.date>>]

(***************************************************************************)
(* One ActivityManager used for a series of calls: updates that pass and   *)
(* updates that fail on a later field, then reads, toggles, creates.       *)
(***************************************************************************)
ManagerInputs ==
    {[NoChange EXCEPT !.title = Some("Jog")],
     [NoChange EXCEPT !.title = Some("Jog"),
                      !.category = Some(<<"f","u","n">>)],
     [NoChange EXCEPT !.start_time = Some("18:30"),
                      !.description = Some("slow"),
                      !.duration = Some(1441)],
     [NoChange EXCEPT !.location = Some("Park"),
                      !.prep_time = Some(181)],
     [NoChange EXCEPT !.start_time = Some("soon"),
                      !.is_outdoor = Some(FALSE)]}

ManagerInit ==
    /\ now = [date |-> 9, time |-> 450]
    /\ activities = create(<<>>, [date |-> 0, time |-> 450],
                           LedgerCreateInput).acts
    /\ born = [id \in {1} |-> [date |-> 0, time |-> 450]]
    /\ completions = <<>>
    /\ lastMark = <<>>
    /\ lastDone = <<>>
    /\ sessions = [m |-> [dirty |-> <<>>]]
    /\ ret = [op |-> "init"]

ManagerNext ==
    \/ \E id \in 1..2, in \in ManagerInputs : MgrUpdate(id, in)
    \/ \E id \in 1..2 : MgrGetById(id)
    \/ \E id \in 1..2 : MgrToggle(id)
    \/ \E in \in {SyncCreateInput,
                  [SyncCreateInput EXCEPT !.start_time = "soon"]} :
          Cardinality(DOMAIN activities) < 2 /\ MgrCreate(in)

SpecManager == ManagerInit /\ [][ManagerNext]_vars

\* a read returns the stored row
ReadsSeeStored ==
    ret.op = "get_by_id" => ret.res = get_by_id(activities, ret.id)

\* an update that raised left the table as it was
FailedUpdateKeeps ==
    (ret'.op = "update" /\ ~ret'.res.ok) => activities' = activities

\* a toggle changes the active flag and the update stamp of its row only
ToggleOnlyToggles ==
    (ret'.op = "toggle" /\ ret'.res # None) =>
        activities' = [activities EXCEPT
                          ![ret'.id].is_active = ~@,
                          ![ret'.id].updated_at = now]

\* a create leaves the rows that were there as they were
CreateOnlyAdds ==
    ret'.op = "create" =>
        \A id \in DOMAIN activities : activities'[id] = activities[id]

\* an update that returned changed only fields it was given
UpdateOnlySupplied ==
    (ret'.op = "update" /\ ret'.res.ok /\ ret'.res.val # None) =>
        \A f \in UpdateFields :
            ret'.in[f] = None =>
                activities'[ret'.id][f] = activities[ret'.id][f]

\* C30: an update that fails with a validation error on one supplied field
\* changes no field of the stored activity: the fields assigned before the
\* failing one are not visible to later reads and are not persisted by a
\* later successful toggle, update or create on the same manager.
C30_FailedUpdateAtomic ==
    /\ []ReadsSeeStored
    /\ [][/\ FailedUpdateKeeps /\ ToggleOnlyToggles /\ CreateOnlyAdds
          /\ UpdateOnlySupplied]_vars

\* what holds: a failed update writes nothing by itself, and a manager
\* whose session holds nothing unflushed reads and writes as stated; the
\* attributes a failed update assigned stay in the session
CleanSessionAtomic ==
    /\ [](sessions.m.dirty = <<>> => ReadsSeeStored)
    /\ [][/\ FailedUpdateKeeps
          /\ sessions.m.dirty = <<>> =>
                /\ ToggleOnlyToggles /\ CreateOnlyAdds /\ UpdateOnlySupplied
          /\ (ret'.op = "update" /\ ~ret'.res.ok) =>
                sessions'.m.dirty[ret'.id]
                   = AssignFrom(1, SessionView(activities,
                                      sessions.m.dirty)[ret'.id],
                                ret'.in).obj]_vars

(***************************************************************************)
(* The streak: marks of one activity for the days around today, with today *)
(* on either side of the turn of the month, and the streak asked for the   *)
(* marked activity and for one never marked.                               *)
(***************************************************************************)
StreakInit ==
    /\ activities = TwoActivities([date |-> 0, time |-> 450])
    /\ born = [id \in {1, 2} |-> [date |-> 0, time |-> 450]]
    /\ completions = <<>>
    /\ lastMark = <<>>
    /\ lastDone = <<>>
    /\ sessions = <<>>
    /\ ret = [op |-> "init"]
    /\ now \in [date : 8..11, time : {450}]

StreakNext ==
    \/ \E status \in {S_done, S_missed},
          d \in {None} \cup {Some(now.date + k) : k \in {0 - 2, 0 - 1, 1}} :
            Mark(1, status, d, None)
    \/ \E id \in 1..2 : GetStreak(id)
    \/ Toggle(2)
    \/ GetStreaks

SpecStreak == StreakInit /\ [][StreakNext]_vars

\* activity_id has a record with status 'done' for date d
DoneOn(activity_id, d) ==
    \E i \in 1..Len(completions) :
        /\ completions[i].activity_id = activity_id
        /\ completions[i].date = d
        /\ completions[i].status = S_done

\* the length of the maximal run of done days today, today - 1, ...
RunLength(activity_id) ==
    CHOOSE n \in 0..(Len(completions) + 1) :
        /\ \A k \in 0..(n - 1) : DoneOn(activity_id, now.date - k)
        /\ ~DoneOn(activity_id, now.date - n)

\* C2: for every today, the 1st of a month and runs across a month or
\* year end included, get_streak returns the length of the maximal run of
\* consecutive days today, today - 1, ... that each have a 'done' record,
\* and 0 when today has none.
C2_Streak ==
    ret.op = "get_streak" =>
        /\ ret.res.ok
        /\ ret.res.val = RunLength(ret.id)

\* what get_streak does return: the run's length whenever the run stops
\* short of the 1st of today's month
StreakWithinMonth ==
    ret.op = "get_streak" =>
        IF RunLength(ret.id) < DayOf(now.date)
        THEN ret.res = Ok(RunLength(ret.id))
        ELSE ret.res = ValueError

\* get_streaks lists each active activity once, by non-increasing streak
StreaksListed ==
    ret.op = "get_streaks" =>
        /\ {ret.res[i].activity_id : i \in 1..Len(ret.res)}
             = {id \in DOMAIN activities : activities[id].is_active}
        /\ Len(ret.res)
             = Cardinality({id \in DOMAIN activities : activities[id].is_active})
        /\ \A i \in 1..(Len(ret.res) - 1) :
              ret.res[i].streak >= ret.res[i + 1].streak

\* C26: for every activity, store state and today the streak computed by
\* the analytics engine (_calculate_streak, as listed by get_streaks) equals
\* the streak computed by CompletionManager.get_streak for the same
\* activity, and get_streaks lists one entry per active activity sorted by
\* non-increasing streak.
C26_StreaksAgree ==
    /\ StreaksListed
    /\ ret.op = "get_streaks" =>
          \A i \in 1..Len(ret.res) :
              get_streak(completions, now, ret.res[i].activity_id)
                 = Ok(ret.res[i].streak)

\* what does hold: the engine's streak is the length of the run of done
\* days ending today, and the ledger's agrees whenever it returns
StreaksAgreeWhenReturned ==
    /\ StreaksListed
    /\ ret.op = "get_streaks" =>
          \A i \in 1..Len(ret.res) :
              /\ ret.res[i].streak = RunLength(ret.res[i].activity_id)
              /\ get_streak(completions, now, ret.res[i].activity_id)
                   \in {Ok(ret.res[i].streak), ValueError}

====
